---- MODULE Spec2Model ----
(***************************************************************************)
(* yeth: dependency-aware content hashes for the applications of one       *)
(* source tree.  The model covers the library functions of src/src/lib:    *)
(* topological_sort, find_app_dependencies, calculate_hashes,              *)
(* calculate_hashes_for_app, compute_final_hash, hash_directory, hash_path *)
(* and hash_file, and the way main.rs chains them.                         *)
(*                                                                         *)
(* Representation.  A string that the code inspects character by character *)
(* (a path component, an exclusion name) is a sequence of character codes; *)
(* a path is a sequence of components; application names, which the code   *)
(* only compares for equality, are TLA+ strings.  SHA-256 is modelled as   *)
(* an ideal (injective) hash: the hex digest of a byte string is the byte  *)
(* string between two bracket symbols, so that the concatenation of hex    *)
(* digests parses uniquely, as the concatenation of fixed-width hex        *)
(* strings does.                                                           *)
(***************************************************************************)
EXTENDS Integers, Sequences, FiniteSets, TLC

VARIABLES
    apps,          \* HashMap<String, App>: the mapping produced by discover_apps
    fs,            \* the filesystem: a set of entries [path, kind, bytes]
    pc,            \* position of the running call
    op,            \* the entry point that was called
    target,        \* app_name argument of find_app_dependencies / calculate_hashes_for_app
    todo,          \* topological_sort: keys the `for (app_name, app) in apps` loop has not visited
    graph,         \* topological_sort: dependency name -> dependents, in push order
    in_degree,     \* topological_sort: HashMap<String, usize>
    queue,         \* topological_sort: VecDeque of ready applications
    topo_order,    \* topological_sort: the output being built
    stack,         \* find_app_dependencies: the call stack of dfs, frames [current, i]
    visited,       \* find_app_dependencies: HashSet visited
    processing,    \* find_app_dependencies: HashSet processing
    dfs_result,    \* find_app_dependencies: Vec result
    order_in,      \* calculate_hashes: the ordered_apps argument it was called with
    ordered_apps,  \* calculate_hashes: the not yet processed suffix of the order
    hashes,        \* calculate_hashes: HashMap<String, String> of final hashes
    result,        \* the value returned by the call (kind = "None" while it runs)
    probe,         \* a call of one function of the hasher or of Dependency::parse:
                   \* its arguments and, once it has returned, its value
    before         \* what an earlier call returned, kept by a caller that calls again

inputVars == <<apps, fs>>
tsVars == <<todo, graph, in_degree, queue, topo_order>>
dfsVars == <<stack, visited, processing, dfs_result>>
chVars == <<order_in, ordered_apps, hashes>>
probeVars == <<probe, before>>
vars == <<apps, fs, pc, op, target, todo, graph, in_degree, queue, topo_order,
          stack, visited, processing, dfs_result, order_in, ordered_apps, hashes, result,
          probe, before>>

-----------------------------------------------------------------------------
(* Bounds of the model                                                     *)

\* total number of dependency declarations over the whole mapping
MaxDeps == 3

-----------------------------------------------------------------------------
(* Strings and paths                                                       *)

\* character codes (ASCII)
Slash == <<47>>

s_w == <<119>>
s_a == <<97>>
s_b == <<98>>
s_c == <<99>>
s_m == <<109>>
s_l == <<108>>
s_x == <<120>>
s_y == <<121>>
s_lib == <<108, 105, 98>>
s_nm == <<110, 109>>
s_gone == <<103, 111, 110, 101>>
s_git == <<46, 103, 105, 116>>
s_ds_store == <<46, 68, 83, 95, 83, 116, 111, 114, 101>>
s_yeth_version == <<121, 101, 116, 104, 46, 118, 101, 114, 115, 105, 111, 110>>

\* str::starts_with / Path::starts_with: s begins with prefix p
StartsWith(s, p) ==
    /\ Len(p) <= Len(s)
    /\ SubSeq(s, 1, Len(p)) = p

\* Ord on byte strings: lexicographic
RECURSIVE StrLess(_, _)
StrLess(s, t) ==
    IF t = <<>> THEN FALSE
    ELSE IF s = <<>> THEN TRUE
    ELSE IF Head(s) # Head(t) THEN Head(s) < Head(t)
    ELSE StrLess(Tail(s), Tail(t))

\* Ord on PathBuf: lexicographic over the components
RECURSIVE PathLess(_, _)
PathLess(p, q) ==
    IF q = <<>> THEN FALSE
    ELSE IF p = <<>> THEN TRUE
    ELSE IF Head(p) # Head(q) THEN StrLess(Head(p), Head(q))
    ELSE PathLess(Tail(p), Tail(q))

\* Path::strip_prefix(base) followed by to_string_lossy: the components after
\* base joined with '/'
RECURSIVE JoinComponents(_)
JoinComponents(p) ==
    IF p = <<>> THEN <<>>
    ELSE IF Len(p) = 1 THEN Head(p)
    ELSE Head(p) \o Slash \o JoinComponents(Tail(p))

RelPathStr(path, base_dir) == JoinComponents(SubSeq(path, Len(base_dir) + 1, Len(path)))

\* Path::canonicalize: the modelled trees hold no symbolic link and every path is
\* absolute without "." or ".." components, so the canonical path is the path
Canonicalize(path) == path

-----------------------------------------------------------------------------
(* Filesystem                                                              *)

FileEntry(p, b) == [path |-> p, kind |-> "file", bytes |-> b]
DirEntry(p) == [path |-> p, kind |-> "dir", bytes |-> <<>>]
\* a directory whose contents cannot be listed (read_dir fails on it)
LockedEntry(p) == [path |-> p, kind |-> "locked", bytes |-> <<>>]

PathExists(f, p) == \E e \in f : e.path = p
IsFile(f, p) == \E e \in f : e.path = p /\ e.kind = "file"
IsDir(f, p) == \E e \in f : e.path = p /\ e.kind \in {"dir", "locked"}
ReadFile(f, p) == (CHOOSE e \in f : e.path = p).bytes

\* WalkDir::new(path).into_iter().filter_map(|e| e.ok()): the root and everything
\* below it that the walk can get at, in an order the filesystem chooses.  The
\* walk yields an error for a root that does not exist and for a directory it
\* cannot list; the errors are dropped, and nothing below such a directory is
\* yielded.
WalkDir(f, path) ==
    {e \in f : /\ StartsWith(e.path, path)
               /\ ~\E d \in f : /\ d.kind = "locked"
                                /\ d.path # e.path
                                /\ StartsWith(d.path, path)
                                /\ StartsWith(e.path, d.path)}

RECURSIVE Enumerate(_)
Enumerate(S) ==
    IF S = {} THEN <<>>
    ELSE LET e == CHOOSE x \in S : TRUE IN <<e>> \o Enumerate(S \ {e})

-----------------------------------------------------------------------------
(* Content hasher                                                          *)

\* Sha256::new(), update(bytes)..., format!("{:x}", finalize()): an ideal hash,
\* the digested bytes between an opening and a closing bracket symbol
Sha256Hex(bytes) == <<-1>> \o bytes \o <<-2>>

NamePattern(s) == [tag |-> "Name", name |-> s]
AbsolutePathPattern(p) == [tag |-> "AbsolutePath", path |-> p]

\* the fixed ignore set of hash_directory
IgnoredFileName(n) == n = s_git \/ n = s_ds_store \/ n = s_yeth_version

\* an exclusion whose Name patterns match a component that starts with the name
should_exclude_prefix(path, base_dir, exclude_patterns) ==
    IF exclude_patterns = <<>> THEN FALSE
    ELSE \E i \in 1..Len(exclude_patterns) :
            LET pattern == exclude_patterns[i] IN
            IF pattern.tag = "Name"
            THEN \E k \in 1..Len(path) : StartsWith(path[k], pattern.name)
            ELSE StartsWith(Canonicalize(path), pattern.path)

\* an exclusion without the rule on the relative path
should_exclude_components(path, base_dir, exclude_patterns) ==
    IF exclude_patterns = <<>> THEN FALSE
    ELSE \E i \in 1..Len(exclude_patterns) :
            LET pattern == exclude_patterns[i] IN
            IF pattern.tag = "Name"
            THEN \E k \in 1..Len(path) : path[k] = pattern.name
            ELSE StartsWith(Canonicalize(path), pattern.path)

\* an exclusion that compares the names with the components below base_dir only
should_exclude_relative(path, base_dir, exclude_patterns) ==
    IF exclude_patterns = <<>> THEN FALSE
    ELSE
        \/ \E i \in 1..Len(exclude_patterns) :
              LET pattern == exclude_patterns[i] IN
              IF pattern.tag = "Name"
              THEN \E k \in (Len(base_dir) + 1)..Len(path) : path[k] = pattern.name
              ELSE StartsWith(Canonicalize(path), pattern.path)
        \/ /\ StartsWith(path, base_dir)
           /\ \E i \in 1..Len(exclude_patterns) :
                 /\ exclude_patterns[i].tag = "Name"
                 /\ StartsWith(RelPathStr(path, base_dir), exclude_patterns[i].name)

should_exclude(path, base_dir, exclude_patterns) ==
    IF exclude_patterns = <<>> THEN FALSE
    ELSE
        \/ \E i \in 1..Len(exclude_patterns) :
              LET pattern == exclude_patterns[i] IN
              IF pattern.tag = "Name"
              THEN \E k \in 1..Len(path) : path[k] = pattern.name
              ELSE \/ Canonicalize(path) = pattern.path
                   \/ StartsWith(Canonicalize(path), pattern.path)
        \/ /\ StartsWith(path, base_dir)
           /\ \E i \in 1..Len(exclude_patterns) :
                 /\ exclude_patterns[i].tag = "Name"
                 /\ \/ StartsWith(RelPathStr(path, base_dir), exclude_patterns[i].name)
                    \/ RelPathStr(path, base_dir) = exclude_patterns[i].name

\* the filter closure of hash_directory: which walked entries are retained
Retained(e, path, exclude) ==
    /\ e.kind = "file"
    /\ ~IgnoredFileName(e.path[Len(e.path)])
    /\ ~should_exclude(e.path, path, exclude)

RECURSIVE PathsOf(_)
PathsOf(entries) ==
    IF entries = <<>> THEN <<>> ELSE <<Head(entries).path>> \o PathsOf(Tail(entries))

\* a vector that is left in the order of the walk
SortPathsNone(files) == files

\* files.sort()
SortPaths(files) == SortSeq(files, PathLess)

\* for file in files { hasher.update(fs::read(&file)?) }
RECURSIVE ConcatContents(_, _)
ConcatContents(f, files) ==
    IF files = <<>> THEN <<>>
    ELSE ReadFile(f, Head(files)) \o ConcatContents(f, Tail(files))

\* a hash_directory that keeps every regular file
RetainedFilesUnfiltered(walk, path, exclude) ==
    SortPaths(PathsOf(SelectSeq(walk, LAMBDA e : e.kind = "file")))

\* the files hash_directory retains when the walk yields its entries in the order `walk`
RetainedFiles(walk, path, exclude) ==
    SortPaths(PathsOf(SelectSeq(walk, LAMBDA e : Retained(e, path, exclude))))

\* a read loop that feeds the base name of each file before its contents
RECURSIVE ConcatNamedContents(_, _)
ConcatNamedContents(f, files) ==
    IF files = <<>> THEN <<>>
    ELSE Head(files)[Len(Head(files))] \o ReadFile(f, Head(files))
         \o ConcatNamedContents(f, Tail(files))

\* a hash_directory whose digest covers the file names
hash_directory_walk_named(f, walk, path, exclude) ==
    Sha256Hex(ConcatNamedContents(f, RetainedFiles(walk, path, exclude)))

\* hash_directory on a walk that yields the entries in the order `walk`
hash_directory_walk(f, walk, path, exclude) ==
    Sha256Hex(ConcatContents(f, RetainedFiles(walk, path, exclude)))

\* the digest hash_directory returns when every read succeeds
hash_directory(f, path, exclude) ==
    hash_directory_walk(f, Enumerate(WalkDir(f, path)), path, exclude)

\* hash_directory reads at least one file (and so can fail with an I/O error)
ReadsFiles(f, path, exclude) ==
    RetainedFiles(Enumerate(WalkDir(f, path)), path, exclude) # <<>>

\* the digest hash_file returns when every read succeeds
hash_file(f, path) == Sha256Hex(ReadFile(f, path))

\* a dispatch without the branch for regular files
PathKindDirOnly(f, path) == IF IsDir(f, path) THEN "dir" ELSE "neither"

\* hash_path: "file", "dir" or "neither", the branch taken
PathKind(f, path) ==
    IF IsFile(f, path) THEN "file" ELSE IF IsDir(f, path) THEN "dir" ELSE "neither"

\* the digest hash_path returns when the path is a file or a directory
hash_path(f, path, exclude) ==
    IF IsFile(f, path) THEN hash_file(f, path) ELSE hash_directory(f, path, exclude)

\* hash_path reads at least one file
PathReadsFiles(f, path, exclude) ==
    IF IsFile(f, path) THEN TRUE ELSE ReadsFiles(f, path, exclude)

RECURSIVE ConcatAll(_)
ConcatAll(ss) == IF ss = <<>> THEN <<>> ELSE Head(ss) \o ConcatAll(Tail(ss))

\* a combination that leaves the dependency hashes out
compute_final_hash_own_only(own_hash, dep_hashes) == Sha256Hex(own_hash)

\* compute_final_hash: own_hash then every dep_hash, in the given order
compute_final_hash(own_hash, dep_hashes) == Sha256Hex(own_hash \o ConcatAll(dep_hashes))

-----------------------------------------------------------------------------
(* Inputs: the filesystem and the application mapping                      *)

AppNames == {"a", "b", "c"}
\* a name that is never a key of the mapping
NoSuchApp == "zz"

DirOfName(n) == IF n = "a" THEN s_a ELSE IF n = "b" THEN s_b ELSE s_c

p_lib == <<s_w, s_lib>>
p_lib_x == <<s_w, s_lib, s_x>>
p_gone == <<s_w, s_gone>>

\* the source tree: three application directories and a shared directory
Tree ==
    { DirEntry(<<s_w>>),
      DirEntry(<<s_w, s_a>>), FileEntry(<<s_w, s_a, s_m>>, <<1>>),
      DirEntry(<<s_w, s_a, s_nm>>), FileEntry(<<s_w, s_a, s_nm, s_l>>, <<2>>),
      DirEntry(<<s_w, s_b>>), FileEntry(<<s_w, s_b, s_m>>, <<3>>),
      DirEntry(<<s_w, s_c>>), FileEntry(<<s_w, s_c, s_m>>, <<4>>),
      DirEntry(p_lib), FileEntry(p_lib_x, <<5>>),
      DirEntry(<<s_w, s_lib, s_nm>>), FileEntry(<<s_w, s_lib, s_nm, s_y>>, <<6>>) }

AppDep(n) == [tag |-> "App", name |-> n]
PathDep(p) == [tag |-> "Path", path |-> p]

\* the dependency declarations an application may hold
DepItems ==
    {AppDep(n) : n \in AppNames \cup {NoSuchApp}} \cup {PathDep(p) : p \in {p_lib, p_lib_x, p_gone}}

\* the dependency lists of k declarations
DepLists(k) == [1..k -> DepItems]

ExcludeOfName(n) ==
    IF n = "a" THEN <<NamePattern(s_nm)>>
    ELSE IF n = "c" THEN <<AbsolutePathPattern(p_lib_x)>>
    ELSE <<>>

\* struct App
App(n, deps) ==
    [name |-> n, dir |-> <<s_w, DirOfName(n)>>, dependencies |-> deps,
     exclude_patterns |-> ExcludeOfName(n)]

\* the mapping in which the applications a, b and c declare da, db and dc
Mapping(da, db, dc) ==
    ("a" :> App("a", da)) @@ ("b" :> App("b", db)) @@ ("c" :> App("c", dc))

\* the orderings of a finite set
Orderings(S) ==
    {s \in [1..Cardinality(S) -> S] : \A i, j \in 1..Cardinality(S) : i # j => s[i] # s[j]}

-----------------------------------------------------------------------------
(* Results                                                                 *)

NoResult == [kind |-> "None", err |-> "", dep |-> "", path |-> <<>>, owner |-> "",
             order |-> <<>>, hashes |-> <<>>, digest |-> <<>>]
OkOrder(o) == [NoResult EXCEPT !.kind = "Ok", !.order = o]
OkHashes(h) == [NoResult EXCEPT !.kind = "Ok", !.hashes = h]
OkDigest(d) == [NoResult EXCEPT !.kind = "Ok", !.digest = d]
Err(e) == [NoResult EXCEPT !.kind = "Err", !.err = e]
ErrDependencyNotFound(d, o) == [Err("DependencyNotFound") EXCEPT !.dep = d, !.owner = o]
ErrPathDependencyNotFound(p, o) ==
    [Err("PathDependencyNotFound") EXCEPT !.path = p, !.owner = o]
ErrNorFileOrDirectory(p) == [Err("NorFileOrDirectory") EXCEPT !.path = p]
ErrAppNotFound(n) == [Err("AppNotFound") EXCEPT !.dep = n]
\* a panic of the thread (unwrap on None, arithmetic overflow in a debug build)
Panic == [NoResult EXCEPT !.kind = "Panic"]

EmptyMap == <<>>

\* no call of a single function is under way, no earlier value is kept
NoProbe == [fn |-> "none"]
NoBefore == [kept |-> FALSE]

\* no call is under way and every local is empty
InitLocals ==
    /\ pc = "idle"
    /\ op = "none"
    /\ target = ""
    /\ todo = {}
    /\ graph = EmptyMap
    /\ in_degree = EmptyMap
    /\ queue = <<>>
    /\ topo_order = <<>>
    /\ stack = <<>>
    /\ visited = {}
    /\ processing = {}
    /\ dfs_result = <<>>
    /\ order_in = <<>>
    /\ ordered_apps = <<>>
    /\ hashes = EmptyMap
    /\ result = NoResult

Init ==
    /\ \E ka, kb, kc \in 0..MaxDeps :
          /\ ka + kb + kc <= MaxDeps
          /\ \E da \in DepLists(ka), db \in DepLists(kb), dc \in DepLists(kc) :
                apps = Mapping(da, db, dc)
    /\ fs = Tree
    /\ probe = NoProbe
    /\ before = NoBefore
    /\ InitLocals

-----------------------------------------------------------------------------
(* topological_sort                                                        *)

\* the locals of topological_sort before its first statement and after it returns
TsReset ==
    /\ todo' = {}
    /\ graph' = EmptyMap
    /\ in_degree' = EmptyMap
    /\ queue' = <<>>
    /\ topo_order' = <<>>

\* graph.entry(k).or_default().push(v) and HashMap::insert
PushEntry(g, k, v) ==
    IF k \in DOMAIN g THEN [g EXCEPT ![k] = Append(@, v)] ELSE (k :> <<v>>) @@ g
Insert(m, k, v) == IF k \in DOMAIN m THEN [m EXCEPT ![k] = v] ELSE (k :> v) @@ m

\* a validation that does not look at PathRef targets
InvalidDepAppOnly(a, f, dep) ==
    IF dep.tag = "App" THEN dep.name \notin DOMAIN a ELSE FALSE

\* a declaration the validation of topological_sort rejects
InvalidDep(a, f, dep) ==
    IF dep.tag = "App" THEN dep.name \notin DOMAIN a ELSE ~PathExists(f, dep.path)

\* the error with the two names of DependencyNotFound exchanged
DepErrorSwapped(dep, app_name) ==
    IF dep.tag = "App" THEN ErrDependencyNotFound(app_name, dep.name)
    ELSE ErrPathDependencyNotFound(dep.path, app_name)

\* the error topological_sort returns for a rejected declaration
DepError(dep, app_name) ==
    IF dep.tag = "App" THEN ErrDependencyNotFound(dep.name, app_name)
    ELSE ErrPathDependencyNotFound(dep.path, app_name)

\* a build loop that validates nothing
FirstInvalidNone(a, f, deps) == 0

\* the index of the first rejected declaration of deps, 0 if there is none
FirstInvalid(a, f, deps) ==
    IF \E i \in 1..Len(deps) : InvalidDep(a, f, deps[i])
    THEN CHOOSE i \in 1..Len(deps) :
            /\ InvalidDep(a, f, deps[i])
            /\ \A j \in 1..(i - 1) : ~InvalidDep(a, f, deps[j])
    ELSE 0

\* the edges one application adds to graph: one push per AppRef declaration
RECURSIVE AddEdges(_, _, _)
AddEdges(g, app_name, deps) ==
    IF deps = <<>> THEN g
    ELSE AddEdges(IF Head(deps).tag = "App" THEN PushEntry(g, Head(deps).name, app_name) ELSE g,
                  app_name, Tail(deps))

\* a count that takes every declaration, PathRefs included
CountAllDeps(deps) == Len(deps)

\* a count that takes each declared name once
CountDistinctAppDeps(deps) ==
    Cardinality({deps[i].name : i \in {j \in 1..Len(deps) : deps[j].tag = "App"}})

\* valid_app_deps: the number of AppRef declarations
RECURSIVE CountAppDeps(_)
CountAppDeps(deps) ==
    IF deps = <<>> THEN 0
    ELSE (IF Head(deps).tag = "App" THEN 1 ELSE 0) + CountAppDeps(Tail(deps))

CallTopologicalSort ==
    /\ pc = "idle"
    /\ pc' = "ts_build"
    /\ op' = "topological_sort"
    /\ todo' = DOMAIN apps
    /\ graph' = EmptyMap
    /\ in_degree' = EmptyMap
    /\ queue' = <<>>
    /\ topo_order' = <<>>
    /\ UNCHANGED <<inputVars, probeVars, target, dfsVars, chVars, result>>

\* one iteration of `for (app_name, app) in apps`; the HashMap yields its keys in
\* an order of its own
TsBuild ==
    /\ pc = "ts_build"
    /\ todo # {}
    /\ \E app_name \in todo :
          LET deps == apps[app_name].dependencies
              bad == FirstInvalid(apps, fs, deps)
          IN IF bad # 0
             THEN /\ result' = DepError(deps[bad], app_name)
                  /\ pc' = "done"
                  /\ TsReset
             ELSE /\ graph' = AddEdges(graph, app_name, deps)
                  /\ in_degree' = Insert(in_degree, app_name, CountAppDeps(deps))
                  /\ todo' = todo \ {app_name}
                  /\ UNCHANGED <<pc, queue, topo_order, result>>
    /\ UNCHANGED <<inputVars, probeVars, op, target, dfsVars, chVars>>

\* `for (app, &deg) in &in_degree`: the ready applications enter the queue in
\* the iteration order of the in_degree HashMap
TsSeed ==
    /\ pc = "ts_build"
    /\ todo = {}
    /\ \E q \in Orderings({n \in DOMAIN in_degree : in_degree[n] = 0}) : queue' = q
    /\ pc' = "ts_kahn"
    /\ UNCHANGED <<inputVars, probeVars, op, target, todo, graph, in_degree, topo_order, dfsVars,
                   chVars, result>>

\* usize subtraction in a release build: 0 - 1 wraps to usize::MAX, which is beyond
\* the integers of the checker and is written -1 (a value that is never 0 again
\* within the at most MaxDeps further decrements)
SubUsize(d) == IF d = 0 THEN -1 ELSE d - 1

\* an inner loop that enqueues a neighbour at every decrement
RECURSIVE RelaxEager(_, _)
RelaxEager(st, neighbors) ==
    IF neighbors = <<>> THEN st
    ELSE LET n == Head(neighbors)
             d == SubUsize(st.deg[n])
         IN RelaxEager([deg |-> [st.deg EXCEPT ![n] = d],
                        q |-> Append(st.q, n),
                        underflow |-> st.underflow \/ st.deg[n] = 0],
                       Tail(neighbors))

\* the inner `for neighbor in neighbors` loop: st = [deg, q, underflow]
RECURSIVE Relax(_, _)
Relax(st, neighbors) ==
    IF neighbors = <<>> THEN st
    ELSE LET n == Head(neighbors)
             d == SubUsize(st.deg[n])
         IN Relax([deg |-> [st.deg EXCEPT ![n] = d],
                   q |-> IF d = 0 THEN Append(st.q, n) ELSE st.q,
                   underflow |-> st.underflow \/ st.deg[n] = 0],
                  Tail(neighbors))

\* one iteration of `while let Some(app) = queue.pop_front()`
TsKahn ==
    /\ pc = "ts_kahn"
    /\ queue # <<>>
    /\ LET app == Head(queue)
           neighbors == IF app \in DOMAIN graph THEN graph[app] ELSE <<>>
           st == Relax([deg |-> in_degree, q |-> Tail(queue), underflow |-> FALSE], neighbors)
       IN \/ /\ topo_order' = Append(topo_order, app)
             /\ in_degree' = st.deg
             /\ queue' = st.q
             /\ UNCHANGED <<pc, todo, graph, result>>
          \/ \* a debug build panics on `*deg -= 1` at zero
             /\ st.underflow
             /\ result' = Panic
             /\ pc' = "done"
             /\ TsReset
    /\ UNCHANGED <<inputVars, probeVars, op, target, dfsVars, chVars>>

\* a length check that lets a partial order through
SortResultUnchecked(order, n) == OkOrder(order)

\* a return that hands the order out back to front, dependents first
SortResultReversed(order, n) ==
    IF Len(order) # n THEN Err("CircularDependency")
    ELSE OkOrder([i \in 1..Len(order) |-> order[Len(order) + 1 - i]])

\* `if topo_order.len() != apps.len()` and the return
SortResult(order, n) ==
    IF Len(order) # n THEN Err("CircularDependency") ELSE OkOrder(order)

\* the queue is empty: the length check and the return
TsReturn ==
    /\ pc = "ts_kahn"
    /\ queue = <<>>
    /\ result' = SortResult(topo_order, Cardinality(DOMAIN apps))
    /\ pc' = "done"
    /\ TsReset
    /\ UNCHANGED <<inputVars, probeVars, op, target, dfsVars, chVars>>

-----------------------------------------------------------------------------
(* find_app_dependencies                                                   *)

DfsReset ==
    /\ stack' = <<>>
    /\ visited' = {}
    /\ processing' = {}
    /\ dfs_result' = <<>>

\* `if let Some(app) = apps.get(current)`: the declarations dfs iterates over
DfsDeps(a, current) == IF current \in DOMAIN a THEN a[current].dependencies ELSE <<>>

\* a dfs without the `visited` check
DfsReturnsEarlyNoVisited(name, proc, vis) == name \in proc

\* the two early returns of dfs: the node is on the stack, or already visited
DfsReturnsEarly(name, proc, vis) == name \in proc \/ name \in vis

Top == stack[Len(stack)]
\* the caller's frame moves on to its next declaration
Advance(st) == [st EXCEPT ![Len(st)].i = @ + 1]

\* a first call of dfs that does not mark the target as being processed
EnterDfsUnmarked(t) ==
    IF t \notin DOMAIN apps
    THEN /\ result' = ErrAppNotFound(t)
         /\ pc' = "done"
         /\ DfsReset
    ELSE /\ result' = NoResult
         /\ pc' = "dfs"
         /\ stack' = <<[current |-> t, i |-> 1]>>
         /\ processing' = {}
         /\ visited' = {}
         /\ dfs_result' = <<>>

\* a find_app_dependencies without the contains_key check
EnterDfsUnchecked(t) ==
    /\ result' = NoResult
    /\ pc' = "dfs"
    /\ stack' = <<[current |-> t, i |-> 1]>>
    /\ processing' = {t}
    /\ visited' = {}
    /\ dfs_result' = <<>>

\* the body of find_app_dependencies up to the first call of dfs
EnterDfs(t) ==
    IF t \notin DOMAIN apps
    THEN /\ result' = ErrAppNotFound(t)
         /\ pc' = "done"
         /\ DfsReset
    ELSE /\ result' = NoResult
         /\ pc' = "dfs"
         /\ stack' = <<[current |-> t, i |-> 1]>>
         /\ processing' = {t}
         /\ visited' = {}
         /\ dfs_result' = <<>>

CallFindAppDependencies ==
    /\ pc = "idle"
    /\ \E t \in DOMAIN apps \cup {NoSuchApp} :
          /\ target' = t
          /\ EnterDfs(t)
    /\ op' = "find_app_dependencies"
    /\ UNCHANGED <<inputVars, probeVars, tsVars, chVars>>

\* dfs meets an AppRef it has to descend into: the callee marks itself as
\* processing and starts on its own declarations
DfsDescend ==
    /\ pc = "dfs"
    /\ Top.i <= Len(DfsDeps(apps, Top.current))
    /\ LET dep == DfsDeps(apps, Top.current)[Top.i] IN
          /\ dep.tag = "App"
          /\ ~DfsReturnsEarly(dep.name, processing, visited)
          /\ processing' = processing \cup {dep.name}
          /\ stack' = Append(Advance(stack), [current |-> dep.name, i |-> 1])
    /\ UNCHANGED <<inputVars, probeVars, pc, op, target, tsVars, visited, dfs_result, chVars, result>>

\* dfs meets a PathRef, or an AppRef whose call returns at once
DfsSkip ==
    /\ pc = "dfs"
    /\ Top.i <= Len(DfsDeps(apps, Top.current))
    /\ LET dep == DfsDeps(apps, Top.current)[Top.i] IN
          \/ dep.tag = "Path"
          \/ dep.tag = "App" /\ DfsReturnsEarly(dep.name, processing, visited)
    /\ stack' = Advance(stack)
    /\ UNCHANGED <<inputVars, probeVars, pc, op, target, tsVars, visited, processing, dfs_result,
                   chVars, result>>

\* an order that holds every application of the mapping: the list, then the rest
ForAppOrderAll(a, list) ==
    list \o Enumerate(DOMAIN a \ {list[i] : i \in 1..Len(list)})

\* calculate_hashes_for_app: the dependency_order it hands to calculate_hashes is
\* the list find_app_dependencies returned
ForAppOrder(a, list) == list

\* a push to the front of the list
PushResultFront(res, current) == <<current>> \o res

\* result.push(current.to_string())
PushResult(res, current) == Append(res, current)

\* the end of a call of dfs: the node leaves processing, becomes visited and is
\* appended; the outermost call returns to find_app_dependencies, which returns
\* the list (to its caller, or to calculate_hashes_for_app, which goes on)
DfsFinish ==
    /\ pc = "dfs"
    /\ Top.i > Len(DfsDeps(apps, Top.current))
    /\ LET list == PushResult(dfs_result, Top.current) IN
       IF Len(stack) > 1
       THEN /\ processing' = processing \ {Top.current}
            /\ visited' = visited \cup {Top.current}
            /\ dfs_result' = list
            /\ stack' = SubSeq(stack, 1, Len(stack) - 1)
            /\ UNCHANGED <<pc, chVars, result>>
       ELSE /\ DfsReset
            /\ IF op = "find_app_dependencies"
               THEN /\ result' = OkOrder(list)
                    /\ pc' = "done"
                    /\ UNCHANGED chVars
               ELSE /\ result' = NoResult
                    /\ pc' = "ch"
                    /\ order_in' = ForAppOrder(apps, list)
                    /\ ordered_apps' = ForAppOrder(apps, list)
                    /\ hashes' = EmptyMap
    /\ UNCHANGED <<inputVars, probeVars, op, target, tsVars>>

-----------------------------------------------------------------------------
(* calculate_hashes, calculate_hashes_for_app and main                     *)

\* the locals of calculate_hashes are dropped when it returns (the argument is
\* kept for the record)
ChReset ==
    /\ ordered_apps' = <<>>
    /\ hashes' = EmptyMap
    /\ UNCHANGED order_in

\* the orders a caller may hand to calculate_hashes: applications of the mapping,
\* each at most once, in any order
Orders(a) == UNION {Orderings(S) : S \in SUBSET DOMAIN a}

\* a dependency loop that reports an unresolved AppRef with the wrong variant
DepHashErrorWrongVariant(f, h, dep) ==
    IF dep.tag = "App"
    THEN IF dep.name \in DOMAIN h THEN "" ELSE "CircularDependency"
    ELSE IF PathKind(f, dep.path) = "neither" THEN "NorFileOrDirectory" ELSE ""

\* the error value of the variant e raised at the declaration dep
HashError(e, dep) == [Err(e) EXCEPT !.path = IF dep.tag = "Path" THEN dep.path ELSE <<>>]

\* the error the dependency loop of calculate_hashes stops with at dep, "" if none
DepHashError(f, h, dep) ==
    IF dep.tag = "App"
    THEN IF dep.name \in DOMAIN h THEN "" ELSE "IncorrectOrder"
    ELSE IF PathKind(f, dep.path) = "neither" THEN "NorFileOrDirectory" ELSE ""

\* the index of the first declaration the loop stops at, 0 if it runs to its end
FirstDepError(f, h, deps) ==
    IF \E i \in 1..Len(deps) : DepHashError(f, h, deps[i]) # ""
    THEN CHOOSE i \in 1..Len(deps) :
            /\ DepHashError(f, h, deps[i]) # ""
            /\ \A j \in 1..(i - 1) : DepHashError(f, h, deps[j]) = ""
    ELSE 0

\* a dependency loop that collects the hashes in reverse declaration order
RECURSIVE DepHashesReversed(_, _, _, _)
DepHashesReversed(f, h, exclude, deps) ==
    IF deps = <<>> THEN <<>>
    ELSE DepHashesReversed(f, h, exclude, Tail(deps))
         \o <<IF Head(deps).tag = "App" THEN h[Head(deps).name]
              ELSE hash_path(f, Head(deps).path, exclude)>>

\* dep_hashes_owned: one hash per declaration, in declaration order
RECURSIVE DepHashes(_, _, _, _)
DepHashes(f, h, exclude, deps) ==
    IF deps = <<>> THEN <<>>
    ELSE <<IF Head(deps).tag = "App" THEN h[Head(deps).name]
           ELSE hash_path(f, Head(deps).path, exclude)>>
         \o DepHashes(f, h, exclude, Tail(deps))

\* a final hash that leaves the dependencies out
FinalHashOwnOnly(f, h, app) ==
    compute_final_hash(hash_directory(f, app.dir, app.exclude_patterns), <<>>)

\* a final hash composed from every final hash computed so far, declared or not
FinalHashAllSoFar(f, h, app) ==
    compute_final_hash(hash_directory(f, app.dir, app.exclude_patterns),
                       [i \in 1..Cardinality(DOMAIN h) |-> h[Enumerate(DOMAIN h)[i]]])

\* the final hash of one application, given the final hashes h computed so far
FinalHash(f, h, app) ==
    compute_final_hash(hash_directory(f, app.dir, app.exclude_patterns),
                       DepHashes(f, h, app.exclude_patterns, app.dependencies))

\* a loop body in which a directory that cannot be walked counts as a failed read
CanFailReadOrWalk(f, app, k) ==
    IF k = 0
    THEN ReadsFiles(f, app.dir, app.exclude_patterns)
         \/ ~\E e \in f : e.path = app.dir /\ e.kind = "dir"
    ELSE /\ app.dependencies[k].tag = "Path"
         /\ PathKind(f, app.dependencies[k].path) # "neither"
         /\ PathReadsFiles(f, app.dependencies[k].path, app.exclude_patterns)

\* a read of the loop body that the operating system may fail: hashing the own
\* directory (k = 0) or the PathRef at declaration k, when it reads a file
CanFailRead(f, app, k) ==
    IF k = 0 THEN ReadsFiles(f, app.dir, app.exclude_patterns)
    ELSE /\ app.dependencies[k].tag = "Path"
         /\ PathKind(f, app.dependencies[k].path) # "neither"
         /\ PathReadsFiles(f, app.dependencies[k].path, app.exclude_patterns)

CallCalculateHashes ==
    /\ pc = "idle"
    /\ \E order \in Orders(apps) :
          /\ order_in' = order
          /\ ordered_apps' = order
    /\ hashes' = EmptyMap
    /\ pc' = "ch"
    /\ op' = "calculate_hashes"
    /\ UNCHANGED <<inputVars, probeVars, target, tsVars, dfsVars, result>>

CallCalculateHashesForApp ==
    /\ pc = "idle"
    /\ \E t \in DOMAIN apps \cup {NoSuchApp} :
          /\ target' = t
          /\ EnterDfs(t)
    /\ op' = "calculate_hashes_for_app"
    /\ UNCHANGED <<inputVars, probeVars, tsVars, chVars>>

\* one iteration of `for app_name in ordered_apps`
ChStep ==
    /\ pc = "ch"
    /\ ordered_apps # <<>>
    /\ LET app_name == Head(ordered_apps) IN
       IF app_name \notin DOMAIN apps
       THEN \* apps.get(&app_name).unwrap()
            /\ result' = Panic
            /\ pc' = "done"
            /\ ChReset
       ELSE LET app == apps[app_name]
                bad == FirstDepError(fs, hashes, app.dependencies)
                last == IF bad = 0 THEN Len(app.dependencies) ELSE bad - 1
            IN \/ \* every read succeeds
                  IF bad # 0
                  THEN /\ result' = HashError(DepHashError(fs, hashes, app.dependencies[bad]),
                                              app.dependencies[bad])
                       /\ pc' = "done"
                       /\ ChReset
                  ELSE /\ hashes' = Insert(hashes, app_name, FinalHash(fs, hashes, app))
                       /\ ordered_apps' = Tail(ordered_apps)
                       /\ UNCHANGED <<pc, order_in, result>>
               \/ \* fs::read or File::open fails: the `?` returns the I/O error
                  /\ \E k \in 0..last : CanFailRead(fs, app, k)
                  /\ result' = Err("ConfigReadError")
                  /\ pc' = "done"
                  /\ ChReset
    /\ UNCHANGED <<inputVars, probeVars, op, target, tsVars, dfsVars>>

\* the order is exhausted: Ok(hashes)
ChReturn ==
    /\ pc = "ch"
    /\ ordered_apps = <<>>
    /\ result' = OkHashes(hashes)
    /\ pc' = "done"
    /\ ChReset
    /\ UNCHANGED <<inputVars, probeVars, op, target, tsVars, dfsVars>>

\* main.rs without --app: the order of topological_sort goes to calculate_hashes
MainHashAll ==
    /\ pc = "done" /\ op = "topological_sort" /\ result.kind = "Ok"
    /\ op' = "main"
    /\ pc' = "ch"
    /\ order_in' = result.order
    /\ ordered_apps' = result.order
    /\ hashes' = EmptyMap
    /\ result' = NoResult
    /\ UNCHANGED <<inputVars, probeVars, target, tsVars, dfsVars>>

\* main.rs with --app NAME: after the sort, calculate_hashes_for_app(NAME)
MainHashApp ==
    /\ pc = "done" /\ op = "topological_sort" /\ result.kind = "Ok"
    /\ \E t \in DOMAIN apps \cup {NoSuchApp} :
          /\ target' = t
          /\ EnterDfs(t)
    /\ op' = "main_app"
    /\ UNCHANGED <<inputVars, probeVars, tsVars, chVars>>

Next ==
    \/ CallTopologicalSort
    \/ TsBuild
    \/ TsSeed
    \/ TsKahn
    \/ TsReturn
    \/ CallFindAppDependencies
    \/ DfsDescend
    \/ DfsSkip
    \/ DfsFinish
    \/ CallCalculateHashes
    \/ CallCalculateHashesForApp
    \/ ChStep
    \/ ChReturn
    \/ MainHashAll
    \/ MainHashApp

Spec == Init /\ [][Next]_vars

\* main.rs without --app: topological_sort, then calculate_hashes on its order
NextMain ==
    \/ CallTopologicalSort
    \/ TsBuild
    \/ TsSeed
    \/ TsKahn
    \/ TsReturn
    \/ MainHashAll
    \/ ChStep
    \/ ChReturn

MainSpec == Init /\ [][NextMain]_vars

\* a second run of main.rs on the same tree, with --app NAME: the hashes of the
\* batch run are kept for comparison
KeepAndHashApp ==
    /\ pc = "done" /\ op = "main" /\ result.kind = "Ok"
    /\ ~before.kept
    /\ before' = [kept |-> TRUE, hashes |-> result.hashes]
    /\ \E t \in DOMAIN apps :
          /\ target' = t
          /\ EnterDfs(t)
    /\ op' = "calculate_hashes_for_app"
    /\ UNCHANGED <<inputVars, probe, tsVars, chVars>>

\* the batch run, then the run for one application
NextCompare ==
    \/ CallTopologicalSort
    \/ TsBuild
    \/ TsSeed
    \/ TsKahn
    \/ TsReturn
    \/ MainHashAll
    \/ ChStep
    \/ ChReturn
    \/ KeepAndHashApp
    \/ DfsDescend
    \/ DfsSkip
    \/ DfsFinish

CompareSpec == Init /\ [][NextCompare]_vars

\* topological_sort called on its own
NextSort ==
    \/ CallTopologicalSort
    \/ TsBuild
    \/ TsSeed
    \/ TsKahn
    \/ TsReturn

SortSpec == Init /\ [][NextSort]_vars

\* find_app_dependencies called on its own
NextDeps ==
    \/ CallFindAppDependencies
    \/ DfsDescend
    \/ DfsSkip
    \/ DfsFinish

DepsSpec == Init /\ [][NextDeps]_vars

\* a call runs on: the thread takes its next step as long as it has one
DepsFairSpec == DepsSpec /\ WF_vars(NextDeps)

\* calculate_hashes called on its own, with an order of the caller's choice
NextHash ==
    \/ CallCalculateHashes
    \/ ChStep
    \/ ChReturn

HashSpec == Init /\ [][NextHash]_vars

\* calculate_hashes_for_app called on its own
NextForApp ==
    \/ CallCalculateHashesForApp
    \/ DfsDescend
    \/ DfsSkip
    \/ DfsFinish
    \/ ChStep
    \/ ChReturn

ForAppSpec == Init /\ [][NextForApp]_vars

-----------------------------------------------------------------------------
(* Calls of single functions                                               *)

\* the byte strings whose digests serve as arguments
ProbeBytes == {<<>>, <<1>>, <<2>>, <<1, 2>>}

\* hex digests: content hashes and a final hash
Digests ==
    {Sha256Hex(b) : b \in ProbeBytes} \cup {Sha256Hex(Sha256Hex(<<1>>) \o Sha256Hex(<<2>>))}

\* the state in which no application declares anything and nothing runs
Quiet ==
    /\ apps = Mapping(<<>>, <<>>, <<>>)
    /\ fs = Tree
    /\ before = NoBefore
    /\ InitLocals

\* a caller is about to call compute_final_hash(own_hash, dep_hashes)
FinalHashInit ==
    /\ Quiet
    /\ \E own \in Digests, k \in 0..2 :
          \E deps \in [1..k -> Digests] :
             probe = [fn |-> "compute_final_hash", own_hash |-> own, dep_hashes |-> deps,
                      returned |-> FALSE, value |-> <<>>]

\* the call returns
ComputeFinalHash ==
    /\ probe.fn = "compute_final_hash"
    /\ ~probe.returned
    /\ probe' = [probe EXCEPT !.returned = TRUE,
                              !.value = compute_final_hash(probe.own_hash, probe.dep_hashes)]
    /\ UNCHANGED <<inputVars, before, pc, op, target, tsVars, dfsVars, chVars, result>>

Reverse(s) == [i \in 1..Len(s) |-> s[Len(s) + 1 - i]]

\* the caller keeps the value and calls again with the dependency hashes in the
\* opposite order (test_compute_final_hash)
ComputeFinalHashReordered ==
    /\ probe.fn = "compute_final_hash"
    /\ probe.returned
    /\ ~before.kept
    /\ before' = [kept |-> TRUE, probe |-> probe]
    /\ probe' = [probe EXCEPT !.dep_hashes = Reverse(@), !.returned = FALSE, !.value = <<>>]
    /\ UNCHANGED <<inputVars, pc, op, target, tsVars, dfsVars, chVars, result>>

NextFinalHash ==
    \/ ComputeFinalHash
    \/ ComputeFinalHashReordered

FinalHashSpec == FinalHashInit /\ [][NextFinalHash]_vars

\* the declarations of the mappings that are hashed, edited and hashed again: the
\* applications and a PathRef to the directory of application a
RehashItems == {AppDep(n) : n \in AppNames} \cup {PathDep(<<s_w, s_a>>)}

RehashInit ==
    /\ \E ka, kb, kc \in 0..MaxDeps :
          /\ ka + kb + kc <= MaxDeps
          /\ \E da \in [1..ka -> RehashItems], db \in [1..kb -> RehashItems],
                dc \in [1..kc -> RehashItems] :
                apps = Mapping(da, db, dc)
    /\ fs = Tree
    /\ probe = NoProbe
    /\ before = NoBefore
    /\ InitLocals

\* the first run: calculate_hashes with an order of the caller's choice
FirstCalculateHashes ==
    /\ ~before.kept
    /\ CallCalculateHashes

\* fs::write(path, bytes): the file gets new contents
Write(f, p, b) == {IF e.path = p THEN FileEntry(p, b) ELSE e : e \in f}

\* the files of the application directories, and what an edit may leave in them
AppFiles == {e.path : e \in {x \in Tree : x.kind = "file" /\ ~StartsWith(x.path, p_lib)}}
NewBytes == {<<9>>}

\* after a successful run a file of an application is edited; the caller keeps the
\* hashes it got
WriteFile ==
    /\ pc = "done" /\ op = "calculate_hashes" /\ result.kind = "Ok"
    /\ ~before.kept
    /\ \E p \in AppFiles, b \in NewBytes :
          /\ fs' = Write(fs, p, b)
          /\ before' = [kept |-> TRUE, fs |-> fs, hashes |-> result.hashes, path |-> p]
    /\ pc' = "idle"
    /\ result' = NoResult
    /\ UNCHANGED <<apps, probe, op, target, tsVars, dfsVars, chVars>>

\* the second run: calculate_hashes with the order of the first
CalculateHashesAgain ==
    /\ pc = "idle"
    /\ before.kept
    /\ ordered_apps' = order_in
    /\ hashes' = EmptyMap
    /\ pc' = "ch"
    /\ UNCHANGED <<inputVars, probeVars, op, target, tsVars, dfsVars, order_in, result>>

NextRehash ==
    \/ FirstCalculateHashes
    \/ ChStep
    \/ ChReturn
    \/ WriteFile
    \/ CalculateHashesAgain

RehashSpec == RehashInit /\ [][NextRehash]_vars

\* mappings whose applications declare PathRefs only: the directory of a, and a
\* file below it in a directory named nm
PathRefItems == {PathDep(<<s_w, s_a>>), PathDep(<<s_w, s_a, s_nm, s_l>>)}

PathRefInit ==
    /\ \E ka, kb, kc \in 0..MaxDeps :
          /\ ka + kb + kc <= MaxDeps
          /\ \E da \in [1..ka -> PathRefItems], db \in [1..kb -> PathRefItems],
                dc \in [1..kc -> PathRefItems] :
                apps = Mapping(da, db, dc)
    /\ fs = Tree
    /\ probe = NoProbe
    /\ before = NoBefore
    /\ InitLocals

\* hash, edit a file, hash again, for mappings of PathRefs
PathRefSpec == PathRefInit /\ [][NextRehash]_vars

-----------------------------------------------------------------------------
(* hash_directory called on its own                                        *)

s_s == <<115>>
s_nmx == <<110, 109, 120>>
s_xnm == <<120, 110, 109>>
\* "s/nm": a pattern text with a separator in it
s_s_nm == s_s \o Slash \o s_nm

\* the hashed directory and the files it may hold
HashedDir == <<s_w, s_a>>
CandidateFiles ==
    { FileEntry(<<s_w, s_a, s_m>>, <<1>>),
      FileEntry(<<s_w, s_a, s_nm, s_l>>, <<2>>),
      FileEntry(<<s_w, s_a, s_nmx>>, <<3>>),
      FileEntry(<<s_w, s_a, s_s, s_nmx>>, <<4>>),
      FileEntry(<<s_w, s_a, s_s, s_xnm>>, <<5>>),
      FileEntry(<<s_w, s_a, s_git>>, <<6>>) }
DirSkeleton ==
    { DirEntry(<<s_w>>), DirEntry(HashedDir),
      DirEntry(<<s_w, s_a, s_nm>>), DirEntry(<<s_w, s_a, s_s>>) }
DirTrees == {DirSkeleton \cup S : S \in SUBSET CandidateFiles}

\* the exclusion pattern lists hash_directory is called with
ExcludeLists ==
    { <<>>,
      <<NamePattern(s_nm)>>,
      <<NamePattern(s_s_nm)>>,
      <<NamePattern(s_a)>>,
      <<NamePattern(s_w)>>,
      <<AbsolutePathPattern(<<s_w, s_a, s_nm>>)>>,
      <<AbsolutePathPattern(<<s_w, s_a, s_m>>), NamePattern(s_nm)>> }

\* the entries directly inside directory dir
Children(f, dir) == {e \in f : Len(e.path) = Len(dir) + 1 /\ StartsWith(e.path, dir)}

\* WalkDir::new(e.path).into_iter(): depth first, a directory before its contents,
\* the entries of one directory in the order read_dir yields them, which is any
RECURSIVE Walks(_, _)
RECURSIVE ChildWalks(_, _)
Walks(f, e) ==
    IF e.kind = "dir"
    THEN {<<e>> \o w : w \in ChildWalks(f, Children(f, e.path))}
    ELSE {<<e>>}
ChildWalks(f, S) ==
    IF S = {} THEN {<<>>}
    ELSE UNION { {w1 \o w2 : w1 \in Walks(f, c), w2 \in ChildWalks(f, S \ {c})} : c \in S }

\* the walks of WalkDir::new(path) with the errors dropped: the empty walk for a
\* root that does not exist
RootWalks(f, path) ==
    IF PathExists(f, path) THEN Walks(f, CHOOSE e \in f : e.path = path) ELSE {<<>>}

\* a caller is about to call hash_directory(path, exclude)
HashDirectoryCall(path, exclude) ==
    [fn |-> "hash_directory", path |-> path, exclude |-> exclude, returned |-> FALSE,
     kind |-> "None", files |-> <<>>, value |-> <<>>]

DirInit ==
    /\ apps = Mapping(<<>>, <<>>, <<>>)
    /\ fs \in DirTrees
    /\ \E exclude \in ExcludeLists : probe = HashDirectoryCall(HashedDir, exclude)
    /\ before = NoBefore
    /\ InitLocals

\* `files` before files.sort(): the retained paths in the order of the walk
CollectFiles(walk, path, exclude) ==
    PathsOf(SelectSeq(walk, LAMBDA e : Retained(e, path, exclude)))

\* the call returns: the digest, or the error of a read that failed
HashDirectory ==
    /\ probe.fn = "hash_directory"
    /\ ~probe.returned
    /\ \E walk \in RootWalks(fs, probe.path) :
          LET files == CollectFiles(walk, probe.path, probe.exclude) IN
          \/ probe' = [probe EXCEPT !.returned = TRUE, !.kind = "Ok", !.files = files,
                          !.value = hash_directory_walk(fs, walk, probe.path, probe.exclude)]
          \/ /\ files # <<>>
             /\ probe' = [probe EXCEPT !.returned = TRUE, !.kind = "Err", !.files = files]
    /\ UNCHANGED <<inputVars, before, pc, op, target, tsVars, dfsVars, chVars, result>>

\* what the caller keeps of a call that returned a digest
Kept(edit, p) ==
    [kept |-> TRUE, edit |-> edit, path |-> p, exclude |-> probe.exclude, value |-> probe.value]

CanCallAgain == probe.fn = "hash_directory" /\ probe.returned /\ probe.kind = "Ok" /\ ~before.kept

\* the caller hashes the same directory once more (test_hash_directory)
HashDirectoryAgain ==
    /\ CanCallAgain
    /\ before' = Kept("none", <<>>)
    /\ probe' = HashDirectoryCall(probe.path, probe.exclude)
    /\ UNCHANGED <<inputVars, pc, op, target, tsVars, dfsVars, chVars, result>>

\* fs::write on a path that holds no file: the file appears, then the directory
\* is hashed again
TreeCreate ==
    /\ CanCallAgain
    /\ \E e \in CandidateFiles :
          /\ ~PathExists(fs, e.path)
          /\ fs' = fs \cup {e}
          /\ before' = Kept("create", e.path)
    /\ probe' = HashDirectoryCall(probe.path, probe.exclude)
    /\ UNCHANGED <<apps, pc, op, target, tsVars, dfsVars, chVars, result>>

\* fs::remove_file, then the directory is hashed again
\* (test_hash_directory_ignores_special_files)
TreeRemove ==
    /\ CanCallAgain
    /\ \E e \in fs :
          /\ e.kind = "file"
          /\ fs' = fs \ {e}
          /\ before' = Kept("remove", e.path)
    /\ probe' = HashDirectoryCall(probe.path, probe.exclude)
    /\ UNCHANGED <<apps, pc, op, target, tsVars, dfsVars, chVars, result>>

\* fs::write on an existing file, then the directory is hashed again
TreeWrite ==
    /\ CanCallAgain
    /\ \E e \in fs, b \in NewBytes :
          /\ e.kind = "file"
          /\ fs' = Write(fs, e.path, b)
          /\ before' = Kept("write", e.path)
    /\ probe' = HashDirectoryCall(probe.path, probe.exclude)
    /\ UNCHANGED <<apps, pc, op, target, tsVars, dfsVars, chVars, result>>

\* fs::remove_dir_all on a subdirectory; the directory is then hashed again, with
\* the same patterns or with none
TreeRemoveDir ==
    /\ CanCallAgain
    /\ \E d \in Children(fs, probe.path), exclude \in {probe.exclude, <<>>} :
          /\ d.kind = "dir"
          /\ fs' = {e \in fs : ~StartsWith(e.path, d.path)}
          /\ before' = Kept("remove_dir", d.path)
          /\ probe' = HashDirectoryCall(probe.path, exclude)
    /\ UNCHANGED <<apps, pc, op, target, tsVars, dfsVars, chVars, result>>

NextDir ==
    \/ HashDirectory
    \/ HashDirectoryAgain
    \/ TreeCreate
    \/ TreeRemove
    \/ TreeWrite
    \/ TreeRemoveDir

DirSpec == DirInit /\ [][NextDir]_vars

\* trees whose files hold zero, one or two bytes: l, m and s/x in the hashed
\* directory, with or without a yeth.version beside s/x
ByteStrings == {<<>>, <<1>>, <<1, 2>>}
ConcatTrees ==
    { DirSkeleton \cup
      { FileEntry(<<s_w, s_a, s_l>>, b1), FileEntry(<<s_w, s_a, s_m>>, b2),
        FileEntry(<<s_w, s_a, s_s, s_x>>, b3) } \cup extra :
      b1 \in ByteStrings, b2 \in ByteStrings, b3 \in ByteStrings,
      extra \in {{}, {FileEntry(<<s_w, s_a, s_s, s_yeth_version>>, <<7>>)}} }

ConcatInit ==
    /\ apps = Mapping(<<>>, <<>>, <<>>)
    /\ fs \in ConcatTrees
    /\ probe = HashDirectoryCall(HashedDir, <<>>)
    /\ before = NoBefore
    /\ InitLocals

\* what the caller keeps of a call that returned a digest, with the tree it was
\* made on and the two paths of the edit that follows
KeptTree(edit, p, q) ==
    [kept |-> TRUE, edit |-> edit, path |-> p, to |-> q, fs |-> fs,
     exclude |-> probe.exclude, value |-> probe.value]

\* the names a file may be renamed to
RenameNames == {s_l, s_m, s_x, s_y}

\* fs::rename of a file inside its directory, then the directory is hashed again
TreeRename ==
    /\ CanCallAgain
    /\ \E e \in fs, n \in RenameNames :
          LET q == SubSeq(e.path, 1, Len(e.path) - 1) \o <<n>> IN
          /\ e.kind = "file"
          /\ ~PathExists(fs, q)
          /\ fs' = (fs \ {e}) \cup {FileEntry(q, e.bytes)}
          /\ before' = KeptTree("rename", e.path, q)
    /\ probe' = HashDirectoryCall(probe.path, probe.exclude)
    /\ UNCHANGED <<apps, pc, op, target, tsVars, dfsVars, chVars, result>>

\* the last k bytes of one file are cut off and written in front of the bytes
\* of another file (two calls of fs::write), then the directory is hashed again
TreeMoveBytes ==
    /\ CanCallAgain
    /\ \E e1 \in fs, e2 \in fs :
          /\ e1.kind = "file" /\ e2.kind = "file" /\ e1 # e2
          /\ \E k \in 1..Len(e1.bytes) :
                LET n == Len(e1.bytes) - k IN
                fs' = Write(Write(fs, e1.path, SubSeq(e1.bytes, 1, n)),
                            e2.path, SubSeq(e1.bytes, n + 1, Len(e1.bytes)) \o e2.bytes)
          /\ before' = KeptTree("move", e1.path, e2.path)
    /\ probe' = HashDirectoryCall(probe.path, probe.exclude)
    /\ UNCHANGED <<apps, pc, op, target, tsVars, dfsVars, chVars, result>>

NextConcat ==
    \/ HashDirectory
    \/ TreeRename
    \/ TreeMoveBytes

ConcatSpec == ConcatInit /\ [][NextConcat]_vars

-----------------------------------------------------------------------------
(* hash_path called on its own                                             *)

s_sock == <<115, 111, 99, 107>>
\* an entry that is neither a regular file nor a directory (a socket, a fifo)
OtherEntry(p) == [path |-> p, kind |-> "other", bytes |-> <<>>]

PathTrees == DirTrees \cup {t \cup {OtherEntry(<<s_w, s_a, s_sock>>)} : t \in DirTrees}
\* the paths hash_path is called with: a directory, a file or nothing, a socket or
\* nothing, nothing
PathTargets == {HashedDir, <<s_w, s_a, s_m>>, <<s_w, s_a, s_sock>>, <<s_w, s_a, s_gone>>}

HashPathCall(path, exclude) ==
    [fn |-> "hash_path", path |-> path, exclude |-> exclude, returned |-> FALSE,
     kind |-> "None", err |-> "", err_path |-> <<>>, value |-> <<>>]

PathInit ==
    /\ apps = Mapping(<<>>, <<>>, <<>>)
    /\ fs \in PathTrees
    /\ \E path \in PathTargets, exclude \in ExcludeLists : probe = HashPathCall(path, exclude)
    /\ before = NoBefore
    /\ InitLocals

\* the call returns
HashPath ==
    /\ probe.fn = "hash_path"
    /\ ~probe.returned
    /\ LET ok(v) == [probe EXCEPT !.returned = TRUE, !.kind = "Ok", !.value = v]
           io == [probe EXCEPT !.returned = TRUE, !.kind = "Err", !.err = "ConfigReadError"]
       IN CASE PathKind(fs, probe.path) = "file" ->
                 \/ probe' = ok(hash_file(fs, probe.path))
                 \/ probe' = io
            [] PathKind(fs, probe.path) = "dir" ->
                 \E walk \in RootWalks(fs, probe.path) :
                    \/ probe' = ok(hash_directory_walk(fs, walk, probe.path, probe.exclude))
                    \/ /\ CollectFiles(walk, probe.path, probe.exclude) # <<>>
                       /\ probe' = io
            [] OTHER ->
                 probe' = [probe EXCEPT !.returned = TRUE, !.kind = "Err",
                                        !.err = "NorFileOrDirectory", !.err_path = probe.path]
    /\ UNCHANGED <<inputVars, before, pc, op, target, tsVars, dfsVars, chVars, result>>

NextPath == HashPath

PathSpec == PathInit /\ [][NextPath]_vars

-----------------------------------------------------------------------------
(* Directories that are missing or cannot be listed                        *)

\* the directory of application a
DirOfA == <<s_w, s_a>>

\* the source tree as it is, without the directory of a, and with that directory
\* closed to listing
MissingTrees ==
    { Tree,
      {e \in Tree : ~StartsWith(e.path, DirOfA)},
      (Tree \ {DirEntry(DirOfA)}) \cup {LockedEntry(DirOfA)} }

\* the declarations of the mappings hashed on these trees: a as an application
\* and the directory of a as a path
MissingItems == {AppDep("a"), PathDep(DirOfA)}

MissingInit ==
    /\ \E ka, kb, kc \in 0..MaxDeps :
          /\ ka + kb + kc <= MaxDeps
          /\ \E da \in [1..ka -> MissingItems], db \in [1..kb -> MissingItems],
                dc \in [1..kc -> MissingItems] :
                apps = Mapping(da, db, dc)
    /\ fs \in MissingTrees
    /\ probe = NoProbe
    /\ before = NoBefore
    /\ InitLocals

\* calculate_hashes with an order of the caller's choice
HashMapping ==
    /\ probe = NoProbe
    /\ CallCalculateHashes

\* hash_directory is called as calculate_hashes calls it: on the directory of an
\* application, with its patterns
CallHashDirectory ==
    /\ pc = "idle" /\ probe = NoProbe
    /\ \E n \in DOMAIN apps :
          probe' = HashDirectoryCall(apps[n].dir, apps[n].exclude_patterns)
    /\ UNCHANGED <<inputVars, before, pc, op, target, tsVars, dfsVars, chVars, result>>

\* hash_path is called on the directory of an application
CallHashPath ==
    /\ pc = "idle" /\ probe = NoProbe
    /\ \E n \in DOMAIN apps :
          probe' = HashPathCall(apps[n].dir, apps[n].exclude_patterns)
    /\ UNCHANGED <<inputVars, before, pc, op, target, tsVars, dfsVars, chVars, result>>

NextMissing ==
    \/ HashMapping
    \/ ChStep
    \/ ChReturn
    \/ CallHashDirectory
    \/ HashDirectory
    \/ CallHashPath
    \/ HashPath

MissingSpec == MissingInit /\ [][NextMissing]_vars

-----------------------------------------------------------------------------
(* Dependency::parse                                                       *)

\* the longest declaration that is parsed
MaxDeclLen == 3

Dot == 46
Sep == 47
\* the characters of a declaration: '.', '/' and a letter
DeclChars == {Dot, Sep, 98}
DeclStrings == UNION {[1..k -> DeclChars] : k \in 0..MaxDeclLen}
\* the directories of the owning applications, as text: "/w/a" and "/w/b"
AppDirTexts == {<<Sep>> \o s_w \o <<Sep>> \o s_a, <<Sep>> \o s_w \o <<Sep>> \o s_b}

\* str::contains(char) and str::starts_with(char)
Contains(s, ch) == \E i \in 1..Len(s) : s[i] = ch
StartsWithChar(s, ch) == s # <<>> /\ s[1] = ch

\* Path::join(base, p), that is PathBuf::push: an absolute p replaces base;
\* otherwise p is appended, after a separator unless base ends with one
PathJoin(base, p) ==
    IF StartsWithChar(p, Sep) THEN p
    ELSE IF base # <<>> /\ base[Len(base)] # Sep THEN base \o <<Sep>> \o p
    ELSE base \o p

\* a parse that looks for the separator only
parse_separator_only(dep_str, app_dir) ==
    IF Contains(dep_str, Sep)
    THEN [tag |-> "Path", path |-> PathJoin(app_dir, dep_str)]
    ELSE [tag |-> "App", name |-> dep_str]

\* Dependency::parse
parse(dep_str, app_dir) ==
    IF Contains(dep_str, Sep) \/ StartsWithChar(dep_str, Dot)
    THEN [tag |-> "Path", path |-> PathJoin(app_dir, dep_str)]
    ELSE [tag |-> "App", name |-> dep_str]

ParseInit ==
    /\ Quiet
    /\ \E s \in DeclStrings, d \in AppDirTexts :
          probe = [fn |-> "parse", dep_str |-> s, app_dir |-> d, returned |-> FALSE,
                   dep |-> [tag |-> "None"]]

\* the call returns
Parse ==
    /\ probe.fn = "parse"
    /\ ~probe.returned
    /\ probe' = [probe EXCEPT !.returned = TRUE, !.dep = parse(probe.dep_str, probe.app_dir)]
    /\ UNCHANGED <<inputVars, before, pc, op, target, tsVars, dfsVars, chVars, result>>

NextParse == Parse

ParseSpec == ParseInit /\ [][NextParse]_vars

-----------------------------------------------------------------------------
(* Vocabulary of the properties                                            *)

Keys == DOMAIN apps
DepsOf(n) == IF n \in Keys THEN apps[n].dependencies ELSE <<>>
\* the names n declares as AppRef, the paths it declares as PathRef
AppRefs(n) == {DepsOf(n)[i].name : i \in {j \in 1..Len(DepsOf(n)) : DepsOf(n)[j].tag = "App"}}
PathRefs(n) == {DepsOf(n)[i].path : i \in {j \in 1..Len(DepsOf(n)) : DepsOf(n)[j].tag = "Path"}}

\* the names reachable from the set S by AppRef edges, S included
RECURSIVE ReachFrom(_)
ReachFrom(S) ==
    LET T == S \cup UNION {AppRefs(n) : n \in S}
    IN IF T = S THEN S ELSE ReachFrom(T)

\* n lies on a cycle of AppRef edges
OnCycle(n) == n \in ReachFrom(AppRefs(n))
HasAppCycle == \E n \in Keys : OnCycle(n)
AllAppRefsAreKeys == \A n \in Keys : AppRefs(n) \subseteq Keys
AllPathRefsExist == \A n \in Keys : \A p \in PathRefs(n) : \E e \in fs : e.path = p
MissingAppRef(d, o) == o \in Keys /\ d \in AppRefs(o) /\ d \notin Keys
MissingPathRef(p, o) == o \in Keys /\ p \in PathRefs(o) /\ ~\E e \in fs : e.path = p

Occurrences(seq, x) == Cardinality({i \in 1..Len(seq) : seq[i] = x})
\* x occurs in seq before y
Before(seq, x, y) ==
    \E i, j \in 1..Len(seq) : i < j /\ seq[i] = x /\ seq[j] = y

TsDone == pc = "done" /\ op = "topological_sort"

-----------------------------------------------------------------------------
(* topological_sort: properties                                            *)

\* C1: on an acyclic mapping whose AppRefs all name keys and whose PathRef targets
\* all exist, topological_sort returns Ok with every application exactly once
\* and every dependency before its dependents.
C1_SortOrdersAcyclic ==
    (TsDone /\ ~HasAppCycle /\ AllAppRefsAreKeys /\ AllPathRefsExist) =>
        /\ result.kind = "Ok"
        /\ Len(result.order) = Cardinality(Keys)
        /\ \A n \in Keys : Occurrences(result.order, n) = 1
        /\ \A x, y \in Keys : y \in AppRefs(x) => Before(result.order, y, x)

\* a chain c -> b -> a with a PathRef beside it has been sorted
C1_Witness ==
    /\ TsDone /\ result.kind = "Ok"
    /\ \E x, y, z \in Keys :
          /\ x # y /\ y # z /\ x # z
          /\ y \in AppRefs(x) /\ z \in AppRefs(y)
          /\ PathRefs(x) \cup PathRefs(y) \cup PathRefs(z) # {}

\* C2 as stated: every mapping with an AppRef cycle makes topological_sort fail
\* with CircularDependency.
C2_CycleAlwaysCircular ==
    (TsDone /\ HasAppCycle) => (result.kind = "Err" /\ result.err = "CircularDependency")

\* C2, amended: a mapping with an AppRef cycle never gets an ordering; the error
\* is CircularDependency when every AppRef names a key and every PathRef target
\* exists, and a validation error otherwise.
C2_CycleNoOrdering ==
    (TsDone /\ HasAppCycle) =>
        /\ result.kind = "Err"
        /\ result.order = <<>>
        /\ (AllAppRefsAreKeys /\ AllPathRefsExist) => result.err = "CircularDependency"
        /\ ~(AllAppRefsAreKeys /\ AllPathRefsExist) =>
              result.err \in {"DependencyNotFound", "PathDependencyNotFound"}

\* a cycle of three applications, and a self-reference, have been rejected
C2_Witness ==
    /\ TsDone /\ result.kind = "Err" /\ result.err = "CircularDependency"
    /\ \/ \E x, y, z \in Keys :
             x # y /\ y # z /\ x # z /\ y \in AppRefs(x) /\ z \in AppRefs(y) /\ x \in AppRefs(z)
       \/ \E x \in Keys : x \in AppRefs(x) /\ \E y \in Keys : x \in AppRefs(y) /\ y # x

\* C3 as stated: a missing AppRef always makes topological_sort fail with
\* DependencyNotFound(dep, owner).
C3_MissingAppAlwaysReported ==
    (TsDone /\ ~AllAppRefsAreKeys) =>
        /\ result.kind = "Err" /\ result.err = "DependencyNotFound"
        /\ MissingAppRef(result.dep, result.owner)

\* C3, amended: with a missing AppRef, topological_sort returns no ordering and
\* fails with the first rejected declaration that its iteration meets:
\* DependencyNotFound(dep, owner) for a missing name dep declared by owner, or
\* PathDependencyNotFound(path, owner) for a missing PathRef target; it is
\* DependencyNotFound whenever no PathRef target is missing.
C3_MissingAppFails ==
    (TsDone /\ ~AllAppRefsAreKeys) =>
        /\ result.kind = "Err"
        /\ result.order = <<>>
        /\ \/ result.err = "DependencyNotFound" /\ MissingAppRef(result.dep, result.owner)
           \/ result.err = "PathDependencyNotFound" /\ MissingPathRef(result.path, result.owner)
        /\ AllPathRefsExist => result.err = "DependencyNotFound"

\* a missing name declared after a valid AppRef has been reported with its owner
C3_Witness ==
    /\ TsDone /\ result.err = "DependencyNotFound"
    /\ result.dep = NoSuchApp /\ result.owner \in Keys
    /\ Len(DepsOf(result.owner)) >= 2
    /\ DepsOf(result.owner)[1].tag = "App" /\ DepsOf(result.owner)[1].name \in Keys

\* C4 as stated: a missing PathRef target always makes topological_sort fail
\* with PathDependencyNotFound(path, owner).
C4_MissingPathAlwaysReported ==
    (TsDone /\ ~AllPathRefsExist) =>
        /\ result.kind = "Err" /\ result.err = "PathDependencyNotFound"
        /\ MissingPathRef(result.path, result.owner)

\* C4, amended: with a missing PathRef target, topological_sort returns no
\* ordering and fails with the first rejected declaration that its iteration
\* meets: PathDependencyNotFound(path, owner) for a missing target declared by
\* owner, or DependencyNotFound(dep, owner) for a missing AppRef; it is
\* PathDependencyNotFound whenever every AppRef names a key, although PathRefs
\* add no edge.
C4_MissingPathFails ==
    (TsDone /\ ~AllPathRefsExist) =>
        /\ result.kind = "Err"
        /\ result.order = <<>>
        /\ \/ result.err = "PathDependencyNotFound" /\ MissingPathRef(result.path, result.owner)
           \/ result.err = "DependencyNotFound" /\ MissingAppRef(result.dep, result.owner)
        /\ AllAppRefsAreKeys => result.err = "PathDependencyNotFound"

\* a missing PathRef target has been reported for a mapping without AppRefs
C4_Witness ==
    /\ TsDone /\ result.err = "PathDependencyNotFound"
    /\ result.path = p_gone /\ result.owner \in Keys
    /\ \A n \in Keys : AppRefs(n) = {}

-----------------------------------------------------------------------------
(* calculate_hashes: properties                                            *)

Range(seq) == {seq[i] : i \in 1..Len(seq)}

\* calculate_hashes is about to process an application one of whose AppRef
\* dependencies has no final hash yet
ReachesUnresolved ==
    /\ pc = "ch" /\ ordered_apps # <<>>
    /\ Head(ordered_apps) \in Keys
    /\ \E d \in AppRefs(Head(ordered_apps)) : d \notin DOMAIN hashes

\* the index of the first AppRef declaration of n without a final hash
FirstUnresolved(n) ==
    CHOOSE i \in 1..Len(DepsOf(n)) :
        /\ DepsOf(n)[i].tag = "App" /\ DepsOf(n)[i].name \notin DOMAIN hashes
        /\ \A j \in 1..(i - 1) :
              ~(DepsOf(n)[j].tag = "App" /\ DepsOf(n)[j].name \notin DOMAIN hashes)

\* the PathRefs n declares before its first unresolved AppRef
EarlierPathRefs(n) ==
    {DepsOf(n)[j].path : j \in {k \in 1..(FirstUnresolved(n) - 1) : DepsOf(n)[k].tag = "Path"}}

IsFileOrDir(p) == \E e \in fs : e.path = p
HoldsAFile(p) == \E e \in fs : e.kind = "file" /\ StartsWith(e.path, p)

\* C5 as stated, failed reads aside: reaching an application with an unresolved
\* AppRef always ends in IncorrectOrder (or in the I/O error of a read that the
\* operating system failed).
C5_UnresolvedAlwaysIncorrectOrder ==
    [][ReachesUnresolved =>
         /\ result'.kind = "Err"
         /\ result'.err \in {"IncorrectOrder", "ConfigReadError"}]_vars

\* C5, amended: reaching an application with an unresolved AppRef ends the call
\* without a hash mapping; the error is IncorrectOrder unless hashing fails
\* before the loop gets to the first such AppRef: a PathRef declared before it is
\* neither a file nor a directory (NorFileOrDirectory), or reading the own
\* directory or an earlier PathRef fails (the I/O error).
C5_UnresolvedFails ==
    [][ReachesUnresolved =>
         LET n == Head(ordered_apps) IN
         /\ pc' = "done"
         /\ result'.kind = "Err"
         /\ result'.hashes = EmptyMap
         /\ \/ result'.err = "IncorrectOrder"
            \/ /\ result'.err = "NorFileOrDirectory"
               /\ result'.path \in EarlierPathRefs(n)
               /\ ~IsFileOrDir(result'.path)
            \/ /\ result'.err = "ConfigReadError"
               /\ \/ HoldsAFile(apps[n].dir)
                  \/ \E p \in EarlierPathRefs(n) : HoldsAFile(p)
         /\ (EarlierPathRefs(n) = {} /\ result'.err # "ConfigReadError")
               => result'.err = "IncorrectOrder"]_vars

\* the order [x, y] with x depending on y has been rejected with IncorrectOrder
C5_Witness ==
    /\ pc = "done" /\ op = "calculate_hashes"
    /\ result.kind = "Err" /\ result.err = "IncorrectOrder"
    /\ Len(order_in) >= 2
    /\ order_in[2] \in AppRefs(order_in[1])

\* the hash the claim expects for declaration i of application n, given the
\* final hashes h
ExpectedDepHash(h, n, i) ==
    IF DepsOf(n)[i].tag = "App" THEN h[DepsOf(n)[i].name]
    ELSE hash_path(fs, DepsOf(n)[i].path, apps[n].exclude_patterns)

\* C6: on success the returned mapping has the names of the order as keys, and
\* every final hash is compute_final_hash(own content hash under the own
\* exclusions, the dependency hashes in declaration order).
C6_FinalHashes ==
    (pc = "done" /\ op = "calculate_hashes" /\ result.kind = "Ok") =>
        /\ DOMAIN result.hashes = Range(order_in)
        /\ \A n \in DOMAIN result.hashes :
              result.hashes[n] =
                  compute_final_hash(
                      hash_directory(fs, apps[n].dir, apps[n].exclude_patterns),
                      [i \in 1..Len(DepsOf(n)) |-> ExpectedDepHash(result.hashes, n, i)])

\* an order of three has been hashed in which an application declares an AppRef
\* and then a PathRef, or a PathRef and then an AppRef
C6_Witness ==
    /\ pc = "done" /\ op = "calculate_hashes" /\ result.kind = "Ok"
    /\ Len(order_in) = 3
    /\ \E n \in Keys :
          /\ Len(DepsOf(n)) = 2
          /\ {DepsOf(n)[1].tag, DepsOf(n)[2].tag} = {"App", "Path"}

-----------------------------------------------------------------------------
(* find_app_dependencies and calculate_hashes_for_app: properties          *)

FadDone == pc = "done" /\ op = "find_app_dependencies"
\* the names reachable from the target, the target included
Closure == ReachFrom({target})
ClosureAcyclic == \A n \in Closure : ~OnCycle(n)

\* C7: for a target of the mapping whose closure is acyclic and names only keys,
\* the result is the closure, every application once, dependencies first;
\* PathRefs are not followed.
C7_ClosureInOrder ==
    (FadDone /\ target \in Keys /\ ClosureAcyclic /\ Closure \subseteq Keys) =>
        /\ result.kind = "Ok"
        /\ Range(result.order) = Closure
        /\ \A n \in Closure : Occurrences(result.order, n) = 1
        /\ \A x \in Closure : \A y \in AppRefs(x) : Before(result.order, y, x)

\* a target has been resolved that reaches one application along two ways and
\* declares a PathRef
C7_Witness ==
    /\ FadDone /\ result.kind = "Ok" /\ ClosureAcyclic
    /\ Cardinality(Closure) = 3
    /\ Cardinality(AppRefs(target)) = 2
    /\ \E y \in AppRefs(target) : AppRefs(y) # {}

\* C8: when the closure of the target holds a cycle, find_app_dependencies
\* terminates with Ok and every reachable name occurs exactly once in the result.
C8_CycleTolerated ==
    /\ [](FadDone /\ target \in Keys /\ ~ClosureAcyclic =>
            /\ result.kind = "Ok"
            /\ Range(result.order) = Closure
            /\ \A n \in Closure : Occurrences(result.order, n) = 1)
    /\ (pc = "dfs" /\ ~ClosureAcyclic) ~> (pc = "done" /\ result.kind = "Ok")

\* a target on a cycle of three applications has been resolved
C8_Witness ==
    /\ FadDone /\ result.kind = "Ok"
    /\ OnCycle(target) /\ Cardinality(Closure) = 3
    /\ \A n \in Closure : Cardinality(AppRefs(n)) = 1

\* C9: find_app_dependencies fails with AppNotFound(target) when the target is
\* no key of the mapping and returns Ok for every target that is a key.
C9_AppNotFound ==
    FadDone =>
        IF target \in Keys
        THEN result.kind = "Ok"
        ELSE result.kind = "Err" /\ result.err = "AppNotFound" /\ result.dep = target

\* a target outside the mapping has been refused while the mapping declares it
\* as an AppRef
C9_Witness ==
    /\ FadDone /\ target \notin Keys
    /\ result.err = "AppNotFound"
    /\ \E n \in Keys : target \in AppRefs(n)

\* C10: calculate_hashes_for_app hashes the closure of the target and nothing
\* else: no application outside the closure ever gets a hash, and on success
\* the keys of the returned mapping are the closure.
C10_HashesClosure ==
    (op = "calculate_hashes_for_app") =>
        /\ DOMAIN hashes \subseteq Closure
        /\ (pc = "done" /\ result.kind = "Ok") => DOMAIN result.hashes = Closure

\* a target with a dependency has been hashed while an application outside its
\* closure exists
C10_Witness ==
    /\ pc = "done" /\ op = "calculate_hashes_for_app" /\ result.kind = "Ok"
    /\ Cardinality(Closure) = 2
    /\ \E n \in Keys : n \notin Closure /\ AppRefs(n) # {}


-----------------------------------------------------------------------------
(* compute_final_hash: properties                                          *)

\* C11: compute_final_hash(own, [d1, d2]) differs from compute_final_hash(own,
\* [d2, d1]) for every own hash and every two distinct dependency hashes.
C11_OrderSensitive ==
    (/\ probe.fn = "compute_final_hash" /\ probe.returned /\ before.kept
     /\ Len(probe.dep_hashes) = 2
     /\ probe.dep_hashes[1] # probe.dep_hashes[2]) =>
        /\ before.probe.own_hash = probe.own_hash
        /\ before.probe.dep_hashes = <<probe.dep_hashes[2], probe.dep_hashes[1]>>
        /\ probe.value # before.probe.value

\* both orders of a content hash and a final hash have been combined
C11_Witness ==
    /\ probe.fn = "compute_final_hash" /\ probe.returned /\ before.kept
    /\ probe.dep_hashes = <<Sha256Hex(Sha256Hex(<<1>>) \o Sha256Hex(<<2>>)), Sha256Hex(<<1>>)>>
    /\ probe.value # before.probe.value

-----------------------------------------------------------------------------
(* calculate_hashes run again after an edit: properties                    *)

\* both runs have returned their hashes
Rehashed == pc = "done" /\ op = "calculate_hashes" /\ before.kept /\ result.kind = "Ok"
\* the content hash of application n on the filesystem f
OwnHash(f, n) == hash_directory(f, apps[n].dir, apps[n].exclude_patterns)
\* the applications whose content hash the edit changed
ContentChanged == {n \in Keys : OwnHash(before.fs, n) # OwnHash(fs, n)}
\* n declares a PathRef that is the edited file or a directory above it
CoversEdit(n) == \E p \in PathRefs(n) : StartsWith(before.path, p)

\* C12 as stated: when the content hash of A, and of A only, has changed, the
\* final hash of A and of every application that reaches A changes, and the
\* final hash of every other application without a PathRef covering the edited
\* file is unchanged.
C12_OnlyDependentsChange ==
    Rehashed =>
        \A A \in Keys : ContentChanged = {A} =>
            \A n \in DOMAIN result.hashes :
                /\ (n = A \/ A \in ReachFrom({n})) => result.hashes[n] # before.hashes[n]
                /\ (n # A /\ A \notin ReachFrom({n}) /\ ~CoversEdit(n)) =>
                        result.hashes[n] = before.hashes[n]

\* C12, amended: the final hash of A and of every application that reaches A
\* changes; it is unchanged for every application that reaches, itself included,
\* neither A nor an application with a PathRef covering the edited file.
C12_DependentsChange ==
    Rehashed =>
        \A A \in Keys : ContentChanged = {A} =>
            \A n \in DOMAIN result.hashes :
                /\ (n = A \/ A \in ReachFrom({n})) => result.hashes[n] # before.hashes[n]
                /\ (A \notin ReachFrom({n}) /\ \A x \in ReachFrom({n}) \cap Keys : ~CoversEdit(x)) =>
                        result.hashes[n] = before.hashes[n]

\* a file of a has been edited while b depends on a, and c, which depends on
\* neither, kept its hash
C12_Witness ==
    /\ Rehashed /\ ContentChanged = {"a"}
    /\ "a" \in AppRefs("b") /\ AppRefs("c") = {} /\ ~CoversEdit("c")
    /\ DOMAIN result.hashes = Keys
    /\ result.hashes["a"] # before.hashes["a"]
    /\ result.hashes["b"] # before.hashes["b"]
    /\ result.hashes["c"] = before.hashes["c"]

-----------------------------------------------------------------------------
(* hash_directory: properties                                              *)

\* hash_directory has returned a digest for the second time
HashedTwice == probe.fn = "hash_directory" /\ probe.returned /\ probe.kind = "Ok" /\ before.kept

\* C13: for a fixed set of retained files and contents, every order in which the
\* walk yields the entries gives the same digest.
C13_WalkOrderIrrelevant ==
    (HashedTwice /\ before.edit = "none") => probe.value = before.value

\* the second walk met three retained files in an order that is not the sorted one
C13_Witness ==
    /\ HashedTwice /\ before.edit = "none"
    /\ Len(probe.files) = 3
    /\ probe.files # SortSeq(probe.files, PathLess)
    /\ probe.value = before.value

\* the file at path p is filtered out by a call with the patterns `exclude`: its
\* base name is in the fixed ignore set, or a pattern excludes it
FilteredOut(p, exclude) ==
    \/ p[Len(p)] \in {s_git, s_ds_store, s_yeth_version}
    \/ should_exclude(p, probe.path, exclude)
\* the subdirectory nm of the hashed directory
NmDir == <<s_w, s_a, s_nm>>

-----------------------------------------------------------------------------
(* should_exclude as hash_directory applies it: properties                 *)

\* hash_directory has returned for a call with the single pattern Name(s)
HashedUnderName(s) ==
    /\ probe.fn = "hash_directory" /\ probe.returned
    /\ probe.exclude = <<NamePattern(s)>>
\* the regular files under the hashed directory whose base name is not in the
\* fixed ignore set
Candidates ==
    {e.path : e \in {x \in fs : /\ x.kind = "file"
                                /\ StartsWith(x.path, probe.path)
                                /\ x.path[Len(x.path)] \notin {s_git, s_ds_store, s_yeth_version}}}
\* the files the call retained
RetainedSet == {probe.files[i] : i \in 1..Len(probe.files)}
HasComponent(p, s) == \E k \in 1..Len(p) : p[k] = s
\* the text of p relative to the hashed directory: its components joined by '/'
RECURSIVE Joined(_)
Joined(cs) == IF Len(cs) <= 1 THEN (IF cs = <<>> THEN <<>> ELSE cs[1])
              ELSE cs[1] \o <<47>> \o Joined(Tail(cs))
RelText(p) == Joined(SubSeq(p, Len(probe.path) + 1, Len(p)))
TextStartsWith(t, s) == Len(s) <= Len(t) /\ \A i \in 1..Len(s) : t[i] = s[i]
NameTexts == {s_nm, s_s_nm, s_a}

\* C15 as stated: under Name(s) a file is excluded only when one of its path
\* components equals s; a file none of whose components equals s is retained.
C15_ComponentWiseOnly ==
    \A s \in NameTexts : HashedUnderName(s) =>
        \A p \in Candidates : (p \notin RetainedSet) <=> HasComponent(p, s)

\* C15, amended: under Name(s) a file with a component equal to s is excluded, and
\* a file without one is excluded only when its path relative to the hashed
\* directory starts with s.
C15_ComponentWise ==
    \A s \in NameTexts : HashedUnderName(s) =>
        \A p \in Candidates :
            /\ HasComponent(p, s) => p \notin RetainedSet
            /\ (~HasComponent(p, s) /\ p \notin RetainedSet) => TextStartsWith(RelText(p), s)

\* under Name(nm) the file nm/l was excluded while s/nmx and s/xnm, whose names
\* start with and contain nm, were retained
C15_Witness ==
    /\ HashedUnderName(s_nm)
    /\ <<s_w, s_a, s_nm, s_l>> \in Candidates \ RetainedSet
    /\ {<<s_w, s_a, s_s, s_nmx>>, <<s_w, s_a, s_s, s_xnm>>} \subseteq RetainedSet

\* C20: under Name(s) a file whose path relative to the hashed directory starts
\* with or equals s is excluded even if none of its components equals s, and the
\* rule looks at the relative path from the hashed directory only: a file in
\* which s begins a deeper component, and that has no component equal to s, is
\* retained.
C20_RelativePrefixRule ==
    \A s \in NameTexts : HashedUnderName(s) =>
        \A p \in Candidates :
            /\ TextStartsWith(RelText(p), s) => p \notin RetainedSet
            /\ (~TextStartsWith(RelText(p), s) /\ ~HasComponent(p, s)) => p \in RetainedSet

\* under Name(nm) the file nmx of the hashed directory was excluded and the file
\* s/nmx retained
C20_Witness ==
    /\ HashedUnderName(s_nm)
    /\ <<s_w, s_a, s_nmx>> \in Candidates \ RetainedSet
    /\ <<s_w, s_a, s_s, s_nmx>> \in RetainedSet

-----------------------------------------------------------------------------
(* exclusion patterns and PathRef dependencies: properties                 *)

\* one of the patterns matches the path p: a component of p equals a Name, or p
\* is an AbsolutePath or lies below it
MatchedBy(p, patterns) ==
    \E i \in 1..Len(patterns) :
        IF patterns[i].tag = "Name" THEN HasComponent(p, patterns[i].name)
        ELSE TextStartsWith(p, patterns[i].path)

\* C16: a file matched by a pattern of its owner contributes neither to the own
\* content hash nor to the content hash of a PathRef dependency, be the target a
\* directory or a single file: editing such a file leaves the final hash of an
\* owner without AppRef dependencies unchanged.
C16_ExclusionsCoverPathRefs ==
    Rehashed =>
        \A n \in DOMAIN result.hashes :
            (AppRefs(n) = {} /\ MatchedBy(before.path, apps[n].exclude_patterns)) =>
                result.hashes[n] = before.hashes[n]

\* the same for owners whose PathRef targets are directories
C16_ExclusionsCoverDirectoryPathRefs ==
    Rehashed =>
        \A n \in DOMAIN result.hashes :
            (/\ AppRefs(n) = {}
             /\ MatchedBy(before.path, apps[n].exclude_patterns)
             /\ \A p \in PathRefs(n) : IsDir(fs, p)) =>
                result.hashes[n] = before.hashes[n]

\* a file below nm has been edited while a, which excludes Name(nm), declares that
\* file as a PathRef, and the final hash of a changed
C16_Witness ==
    /\ Rehashed /\ "a" \in DOMAIN result.hashes
    /\ before.path = <<s_w, s_a, s_nm, s_l>>
    /\ PathRefs("a") = {<<s_w, s_a, s_nm, s_l>>}
    /\ result.hashes["a"] # before.hashes["a"]


-----------------------------------------------------------------------------
(* hash_path: properties                                                   *)

HashPathReturned == probe.fn = "hash_path" /\ probe.returned
\* a read failed: the I/O error is returned
ReadFailed == probe.kind = "Err" /\ probe.err = "ConfigReadError"
\* the bytes of the regular file at p
BytesAt(p) == (CHOOSE e \in fs : e.path = p /\ e.kind = "file").bytes

\* C17: hash_path returns the file digest for a regular file, the directory digest
\* under the given patterns for a directory (unless a read fails), and fails with
\* NorFileOrDirectory(path) for every other path, one that does not exist included.
C17_HashPathDispatch ==
    HashPathReturned =>
        IF \E e \in fs : e.path = probe.path /\ e.kind = "file"
        THEN ReadFailed \/ (probe.kind = "Ok" /\ probe.value = Sha256Hex(BytesAt(probe.path)))
        ELSE IF \E e \in fs : e.path = probe.path /\ e.kind = "dir"
        THEN ReadFailed
             \/ (probe.kind = "Ok"
                 /\ probe.value = hash_directory(fs, probe.path, probe.exclude))
        ELSE /\ probe.kind = "Err" /\ probe.err = "NorFileOrDirectory"
             /\ probe.err_path = probe.path

\* hash_path has failed with NorFileOrDirectory for a path that does not exist
\* while a socket is in the tree
C17_Witness ==
    /\ HashPathReturned
    /\ probe.err = "NorFileOrDirectory"
    /\ probe.path = <<s_w, s_a, s_gone>>
    /\ \E e \in fs : e.kind = "other"

-----------------------------------------------------------------------------
(* topological_sort and PathRef dependencies: properties                   *)

\* the ready queue has just been seeded
Seeded == pc = "ts_kahn" /\ op = "topological_sort" /\ topo_order = <<>>
\* the number of AppRef declarations of n
AppRefCount(n) == Cardinality({i \in 1..Len(DepsOf(n)) : DepsOf(n)[i].tag = "App"})

\* C18: PathRefs add nothing to the in-degree: when the ready queue is seeded the
\* in-degree of every application is its number of AppRef declarations, an
\* application that declares PathRefs only is in the queue, and every edge of the
\* graph comes from an AppRef; CircularDependency is returned only for a mapping
\* with a cycle of AppRefs.
C18_PathRefsOutsideOrdering ==
    /\ Seeded =>
          /\ \A n \in Keys : in_degree[n] = AppRefCount(n)
          /\ \A n \in Keys : AppRefs(n) = {} => n \in Range(queue)
          /\ \A d \in DOMAIN graph : \A i \in 1..Len(graph[d]) : d \in AppRefs(graph[d][i])
    /\ (TsDone /\ result.err = "CircularDependency") => HasAppCycle

\* the queue has been seeded with an application that declares two PathRefs while
\* another application, which declares an AppRef, waits
C18_Witness ==
    /\ Seeded
    /\ \E n \in Keys :
          AppRefs(n) = {} /\ Len(DepsOf(n)) = 2 /\ n \in Range(queue)
    /\ \E n \in Keys : AppRefs(n) # {} /\ n \notin Range(queue)

-----------------------------------------------------------------------------
(* Dependency::parse: properties                                           *)

\* the declaration looks like a path: it holds a '/' or begins with a '.'
LooksLikePath(s) == (\E i \in 1..Len(s) : s[i] = 47) \/ (Len(s) >= 1 /\ s[1] = 46)
\* the directory joined with the declaration: the declaration alone when it is
\* absolute, the directory, a '/' and the declaration otherwise
JoinedText(dir, s) == IF Len(s) >= 1 /\ s[1] = 47 THEN s ELSE dir \o <<47>> \o s

\* C19: Dependency::parse returns a PathRef, whose path is the application's
\* directory joined with the declaration, exactly when the declaration contains
\* '/' or starts with '.', and AppRef(declaration) in every other case.
C19_ParseClassifies ==
    (probe.fn = "parse" /\ probe.returned) =>
        IF LooksLikePath(probe.dep_str)
        THEN /\ probe.dep.tag = "Path"
             /\ probe.dep.path = JoinedText(probe.app_dir, probe.dep_str)
        ELSE /\ probe.dep.tag = "App"
             /\ probe.dep.name = probe.dep_str

\* ".b" has been parsed as a PathRef below the application's directory
C19_Witness ==
    /\ probe.fn = "parse" /\ probe.returned
    /\ probe.dep_str = <<46, 98>>
    /\ probe.dep.tag = "Path"
    /\ probe.dep.path = probe.app_dir \o <<47, 46, 98>>

-----------------------------------------------------------------------------
(* topological_sort: validation and the Kahn loop                          *)

Valid == AllAppRefsAreKeys /\ AllPathRefsExist

\* C21: topological_sort validates every AppRef and PathRef while it builds the
\* graph, before any ordering step: on a mapping with a missing AppRef or a
\* missing PathRef target the queue is never seeded, nothing is appended to the
\* output, and the result is DependencyNotFound or PathDependencyNotFound, never
\* CircularDependency and never Ok, also when the AppRef edges hold a cycle.
C21_ValidationBeforeOrdering ==
    (op = "topological_sort" /\ ~Valid) =>
        /\ pc # "ts_kahn"
        /\ queue = <<>> /\ topo_order = <<>>
        /\ pc = "done" =>
              /\ result.kind = "Err"
              /\ result.err \in {"DependencyNotFound", "PathDependencyNotFound"}
              /\ result.order = <<>>

\* a mapping with an AppRef cycle between two keys and a missing reference
\* declared by the third application has been refused
C21_Witness ==
    /\ TsDone /\ ~Valid
    /\ result.err \in {"DependencyNotFound", "PathDependencyNotFound"}
    /\ \E x, y \in Keys : x # y /\ y \in AppRefs(x) /\ x \in AppRefs(y)
    /\ result.owner \in Keys /\ ~OnCycle(result.owner)

\* the applications that have entered the queue so far, in the order they did:
\* those already popped (each pop appends to the output) and those still waiting
Enqueued == topo_order \o queue

\* n declares one AppRef at two places of its list
DeclaresTwice(n) ==
    \E i, j \in 1..Len(DepsOf(n)) :
        i < j /\ DepsOf(n)[i].tag = "App" /\ DepsOf(n)[i] = DepsOf(n)[j]

\* C22: in the Kahn loop every application is enqueued at most once and appended
\* to the output at most once, and no in-degree counter is decremented below
\* zero (no wrapped counter, no overflow panic), for every validated mapping,
\* also when an application declares the same AppRef more than once.
C22_KahnOncePerApplication ==
    (op = "topological_sort" /\ Valid) =>
        /\ \A n \in Keys : Occurrences(Enqueued, n) <= 1
        /\ \A n \in Keys : Occurrences(topo_order, n) <= 1
        /\ \A n \in DOMAIN in_degree : in_degree[n] >= 0
        /\ result.kind # "Panic"
        /\ result.kind = "Ok" => \A n \in Keys : Occurrences(result.order, n) = 1

\* the Kahn loop has appended an application that declares one AppRef twice,
\* after two decrements of its counter
C22_Witness ==
    /\ op = "topological_sort" /\ pc = "ts_kahn" /\ Valid
    /\ \E n \in Keys :
          /\ DeclaresTwice(n)
          /\ Occurrences(topo_order, n) = 1
          /\ in_degree[n] = 0

-----------------------------------------------------------------------------
(* main: the order of topological_sort handed to calculate_hashes          *)

\* calculate_hashes runs on the order topological_sort returned
MainRuns == op = "main"

\* C23: calculate_hashes applied to the order topological_sort returned never
\* fails with IncorrectOrder: whenever it is about to compose an application,
\* the final hash of each of its AppRef dependencies is in the hash mapping.
C23_SortedOrderResolves ==
    MainRuns =>
        /\ ~ReachesUnresolved
        /\ ~(result.kind = "Err" /\ result.err = "IncorrectOrder")

\* the batch run has returned the hashes of a chain of three applications, or of
\* an application with two AppRef dependencies
C23_Witness ==
    /\ MainRuns /\ pc = "done" /\ result.kind = "Ok"
    /\ DOMAIN result.hashes = Keys
    /\ \E x \in Keys :
          \/ \E y \in AppRefs(x) : y # x /\ AppRefs(y) \ {x, y} # {}
          \/ Cardinality(AppRefs(x)) = 2

-----------------------------------------------------------------------------
(* calculate_hashes_for_app: cycles and absent names                       *)

ForAppRuns == op = "calculate_hashes_for_app"
ForAppDone == ForAppRuns /\ pc = "done"
\* the call was made for a key whose closure holds a cycle
CyclicClosure == target \in Keys /\ ~ClosureAcyclic
\* the PathRefs declared by the applications of the closure
ClosurePathRefs == UNION {PathRefs(n) : n \in Closure}

\* C24 as stated, failed reads aside: with a cycle in the closure of the target,
\* calculate_hashes_for_app fails with IncorrectOrder (or with the I/O error of
\* a read that the operating system failed).
C24_CycleAlwaysIncorrectOrder ==
    (ForAppDone /\ CyclicClosure) =>
        /\ result.kind = "Err"
        /\ result.err \in {"IncorrectOrder", "ConfigReadError"}

\* C24, amended: with a cycle in the closure of the target, the order handed to
\* calculate_hashes places a member of the cycle before one of its AppRef
\* dependencies, and the call returns no hashes and never CircularDependency.
\* It fails with IncorrectOrder unless the run ends before it reaches that
\* member: with a panic when the closure names an application that is no key,
\* with NorFileOrDirectory when a PathRef of the closure is neither a file nor a
\* directory, or with the I/O error of a failed read.
C24_CycleFails ==
    (ForAppRuns /\ CyclicClosure /\ pc \in {"ch", "done"}) =>
        /\ \E i \in 1..Len(order_in) :
              /\ OnCycle(order_in[i])
              /\ \E d \in AppRefs(order_in[i]) : \A j \in 1..(i - 1) : order_in[j] # d
        /\ pc = "done" =>
              /\ result.kind # "Ok"
              /\ result.hashes = EmptyMap
              /\ result.err # "CircularDependency"
              /\ result.kind = "Panic" => ~(Closure \subseteq Keys)
              /\ result.err = "NorFileOrDirectory" =>
                    result.path \in ClosurePathRefs /\ ~IsFileOrDir(result.path)
              /\ (/\ Closure \subseteq Keys
                  /\ \A p \in ClosurePathRefs : IsFileOrDir(p)
                  /\ result.err # "ConfigReadError") => result.err = "IncorrectOrder"

\* a target on a cycle of two applications, one of which declares a PathRef, has
\* been refused with IncorrectOrder
C24_Witness ==
    /\ ForAppDone /\ CyclicClosure
    /\ result.kind = "Err" /\ result.err = "IncorrectOrder"
    /\ Cardinality(Closure) = 2 /\ OnCycle(target)
    /\ ClosurePathRefs # {}

\* C25: every name in the list find_app_dependencies hands to calculate_hashes
\* is a key of the mapping, so that calculate_hashes_for_app never looks up an
\* absent application (the lookup is unwrapped: it panics on an absent name).
C25_OrderNamesAreKeys ==
    ForAppRuns =>
        /\ Range(order_in) \subseteq Keys
        /\ result.kind # "Panic"

\* calculate_hashes_for_app has panicked on a name that an application of the
\* closure declares and that is no key of the mapping
C25_Witness ==
    /\ ForAppDone /\ target \in Keys
    /\ result.kind = "Panic"
    /\ \E i \in 1..Len(order_in) :
          order_in[i] \notin Keys /\ \E n \in Closure \cap Keys : order_in[i] \in AppRefs(n)

-----------------------------------------------------------------------------
(* find_app_dependencies: the position of the target                       *)

\* C26: whenever find_app_dependencies returns Ok, the target is the last element
\* of the returned list (and occurs nowhere else in it), for acyclic and cyclic
\* AppRef graphs alike.
C26_TargetLast ==
    (FadDone /\ result.kind = "Ok") =>
        /\ result.order # <<>>
        /\ result.order[Len(result.order)] = target
        /\ Occurrences(result.order, target) = 1

\* a target on a cycle of two or three applications has been resolved, and the
\* list holds another application after which the target comes
C26_Witness ==
    /\ FadDone /\ result.kind = "Ok"
    /\ OnCycle(target) /\ Cardinality(Closure) >= 2
    /\ Len(result.order) >= 2
    /\ result.order[1] # target /\ target \in AppRefs(result.order[1])

-----------------------------------------------------------------------------
(* The batch run and the run for one application                           *)

\* the run for one application has returned after a batch run on the same
\* mapping and tree
BothRan == ForAppDone /\ before.kept /\ result.kind = "Ok"

\* C27: on an acyclic, fully valid mapping (one the batch run succeeds on), the
\* final hash calculate_hashes_for_app reports for each application of the
\* closure equals the final hash the batch run reports for it, whatever order
\* the sort and the traversal processed the applications in.
C27_ForAppAgreesWithBatch ==
    BothRan =>
        /\ DOMAIN result.hashes = Closure
        /\ DOMAIN before.hashes = Keys
        /\ \A n \in DOMAIN result.hashes : result.hashes[n] = before.hashes[n]

\* both runs have returned for a target with a dependency, on a mapping that
\* holds an application outside the closure of the target
C27_Witness ==
    /\ BothRan
    /\ AppRefs(target) # {}
    /\ Closure # Keys
    /\ \E n \in Closure : PathRefs(n) # {}

-----------------------------------------------------------------------------
(* hash_directory: what the digest covers                                  *)

\* the files of the tree f that a call with the patterns `exclude` retains:
\* regular files under the hashed directory that are not filtered out
RetainedIn(f, exclude) ==
    {e.path : e \in {x \in f : /\ x.kind = "file"
                               /\ StartsWith(x.path, probe.path)
                               /\ ~FilteredOut(x.path, exclude)}}

\* the renamed file is retained under both names and stands at the same place
\* among the other retained files
RenameKeepsOrder ==
    LET old == RetainedIn(before.fs, before.exclude)
        new == RetainedIn(fs, probe.exclude)
    IN /\ before.path \in old /\ before.to \in new
       /\ \A r \in old \ {before.path} :
             PathLess(r, before.path) <=> PathLess(r, before.to)

\* the bytes went from a retained file to the retained file that comes next in
\* sorted order
MovedToNext ==
    LET old == RetainedIn(before.fs, before.exclude)
    IN /\ before.path \in old /\ before.to \in old
       /\ PathLess(before.path, before.to)
       /\ ~\E r \in old : PathLess(before.path, r) /\ PathLess(r, before.to)

\* C28: file names, relative paths and file boundaries are not fed to the digest:
\* renaming a retained file without changing the sort order, or moving bytes
\* from the end of one retained file to the start of the next one, leaves the
\* digest of hash_directory unchanged.
C28_OnlyConcatenationCounts ==
    HashedTwice =>
        /\ (before.edit = "rename" /\ RenameKeepsOrder) => probe.value = before.value
        /\ (before.edit = "move" /\ MovedToNext) => probe.value = before.value

\* the digest came out the same after l, holding two bytes, gave its last byte
\* to m, or after s/x was renamed to s/y
C28_Witness ==
    /\ HashedTwice /\ probe.value = before.value
    /\ \/ /\ before.edit = "move" /\ MovedToNext
          /\ before.path = <<s_w, s_a, s_l>> /\ before.to = <<s_w, s_a, s_m>>
          /\ ReadFile(before.fs, before.path) = <<1, 2>>
          /\ ReadFile(fs, before.path) = <<1>>
       \/ /\ before.edit = "rename" /\ RenameKeepsOrder
          /\ before.path = <<s_w, s_a, s_s, s_x>> /\ before.to = <<s_w, s_a, s_s, s_y>>
          /\ ReadFile(fs, before.to) # <<>>

-----------------------------------------------------------------------------
(* should_exclude: the components of the hashed root                       *)

\* a Name pattern of the call equals a component of the path of the hashed
\* directory itself: its own name or the name of an ancestor
RootMatchesName ==
    \E i \in 1..Len(probe.exclude) :
        /\ probe.exclude[i].tag = "Name"
        /\ HasComponent(probe.path, probe.exclude[i].name)

\* the digest of a directory that holds nothing
EmptyDirDigest == hash_directory({DirEntry(probe.path)}, probe.path, <<>>)

\* C29: Name patterns are compared with every component of the full path of a
\* candidate, those of the hashed root and of its ancestors included: when the
\* path of the hashed root has a component equal to a Name pattern, every file
\* under the root is excluded and the digest is that of an empty directory.
C29_RootComponentExcludesAll ==
    (probe.fn = "hash_directory" /\ probe.returned /\ RootMatchesName) =>
        /\ probe.kind = "Ok"
        /\ probe.files = <<>>
        /\ probe.value = EmptyDirDigest

\* a directory with three candidate files has been hashed under the name of its
\* parent directory, and under its own name
C29_Witness ==
    /\ probe.fn = "hash_directory" /\ probe.returned /\ probe.kind = "Ok"
    /\ probe.exclude \in {<<NamePattern(s_w)>>, <<NamePattern(s_a)>>}
    /\ Cardinality(Candidates) >= 3
    /\ probe.value = EmptyDirDigest

-----------------------------------------------------------------------------
(* hash_directory on a root it cannot walk                                 *)

\* the path is no directory that can be listed: nothing is there, or a directory
\* that is closed to listing
Missing(p) == ~\E e \in fs : e.path = p
Unlistable(p) == \E e \in fs : e.path = p /\ e.kind = "locked"
\* the digest of the empty byte string
EmptyDigest == Sha256Hex(<<>>)

\* the calls of calculate_hashes that have nothing to fail on apart from the
\* directories themselves: the applications of the order declare no dependency
\* and no file of theirs can be reached
OrderOfBareApps ==
    \A n \in Range(order_in) :
        /\ DepsOf(n) = <<>>
        /\ Missing(apps[n].dir) \/ Unlistable(apps[n].dir)

\* C30: hash_directory on a root that does not exist or cannot be listed returns
\* Ok with the digest of the empty byte string; so calculate_hashes does not fail
\* on an application whose directory is missing (its own content hash is that
\* digest, and a NorFileOrDirectory error always names a PathRef), whereas
\* hash_path on the missing path fails with NorFileOrDirectory.
C30_MissingRootHashesAsEmpty ==
    /\ (probe.fn = "hash_directory" /\ probe.returned
        /\ (Missing(probe.path) \/ Unlistable(probe.path))) =>
           probe.kind = "Ok" /\ probe.value = EmptyDigest
    /\ (probe.fn = "hash_path" /\ probe.returned /\ Missing(probe.path)) =>
           /\ probe.kind = "Err" /\ probe.err = "NorFileOrDirectory"
           /\ probe.err_path = probe.path
    /\ (pc = "done" /\ op = "calculate_hashes") =>
           /\ OrderOfBareApps =>
                 /\ result.kind = "Ok"
                 /\ \A n \in Range(order_in) :
                       result.hashes[n] = compute_final_hash(EmptyDigest, <<>>)
           /\ result.kind = "Ok" =>
                 \A n \in DOMAIN result.hashes :
                    (Missing(apps[n].dir) \/ Unlistable(apps[n].dir)) =>
                        result.hashes[n] =
                            compute_final_hash(
                                EmptyDigest,
                                [i \in 1..Len(DepsOf(n)) |-> ExpectedDepHash(result.hashes, n, i)])
           /\ (result.kind = "Err" /\ result.err = "NorFileOrDirectory") =>
                 /\ Missing(result.path)
                 /\ \E n \in Range(order_in) : result.path \in PathRefs(n)

\* calculate_hashes has returned the hashes of an order that holds application a,
\* whose directory is missing, and an application that depends on a
C30_Witness ==
    /\ pc = "done" /\ op = "calculate_hashes" /\ result.kind = "Ok"
    /\ Missing(DirOfA)
    /\ "a" \in DOMAIN result.hashes
    /\ \E n \in DOMAIN result.hashes : n # "a" /\ "a" \in AppRefs(n)
====
